---------------------------- MODULE Spec2Model ----------------------------
(***************************************************************************)
(* Document Processing Pipeline Engine (mysticBliss/doc_intelligence).     *)
(*                                                                         *)
(* The module models src/src/app/processing/pipeline.py (ProcessingPipeline *)
(* run, _run_linear, _run_dag, _execute_step, _get_dag_execution_order,    *)
(* _aggregate_results), the factory, the instrumentation wrapper and the   *)
(* dispatcher's process_document.                                          *)
(*                                                                         *)
(* Three specifications share the variables:                               *)
(*   Spec          one run of ProcessingPipeline.run on one payload        *)
(*   SpecOrder     _get_dag_execution_order applied to bounded node lists  *)
(*   SpecDispatch  DocumentOrchestrationService.process_document           *)
(***************************************************************************)
EXTENDS Integers, Sequences, FiniteSets, TLC

VARIABLES
    config,               \* the pipeline configuration handed to __init__
    root,                 \* the payload object handed to run (caller's view)
    pc,                   \* position of the run coroutine
    idx,                  \* linear: step index i (1-based); dag: level index
    tasks,                \* the coroutines handed to the pending asyncio.gather
    permits,              \* value of the run's asyncio.Semaphore
    payloads_to_process,  \* _run_linear: ordered dict key -> payload
    all_results,          \* _run_linear: results accumulated so far
    execution_levels,     \* _run_dag: result of _get_dag_execution_order
    payloads_by_step,     \* _run_dag: node id -> list of payloads
    step_results,         \* _run_dag: node id -> list of results
    executed_steps,       \* _run_dag: set of node ids
    final_result,         \* the DocumentProcessingResult returned by run
    launched,             \* history: executions handed to gather, per step/level
    started,              \* history: executions that entered the semaphore
    returned,             \* history: executions that returned their Result
    order_in,             \* SpecOrder: the node list under test
    order_out,            \* SpecOrder: what _get_dag_execution_order gave
    svc,                  \* SpecDispatch: state of one process_document call
    call_in,              \* SpecWrapper, SpecAggregate: arguments of the call
    call_out              \* SpecWrapper, SpecAggregate: what the call returned

vars == <<config, root, pc, idx, tasks, permits, payloads_to_process,
          all_results, execution_levels, payloads_by_step, step_results,
          executed_steps, final_result, launched, started, returned,
          order_in, order_out, svc, call_in, call_out>>

runVars == <<config, root, pc, idx, tasks, permits, payloads_to_process,
             all_results, execution_levels, payloads_by_step, step_results,
             executed_steps, final_result, launched, started, returned>>

-----------------------------------------------------------------------------
(* Bounds *)

MaxConc == 2       \* max_concurrency ranges over 1..MaxConc
MaxSteps == 3      \* longest linear pipeline
MaxPages == 2      \* most children one fan-out result carries
MaxNodes == 3      \* SpecOrder: longest node list
MaxExec == 4       \* executions one run launches, counting emitted children
MaxResults == 3    \* SpecAggregate: longest results list
MaxQueries == 3    \* SpecStatus: status queries of one job
MaxFiles == 3      \* SpecLoad: files in the template directory
MaxPdfPages == 4   \* SpecExtract: pages of the PDF
MaxTokens == 2     \* SpecExtract: comma-separated parts of page_range

-----------------------------------------------------------------------------
(* Small helpers *)

Max(a, b) == IF a > b THEN a ELSE b

Range(s) == {s[i] : i \in 1..Len(s)}

RECURSIVE Flatten(_)
Flatten(ss) == IF ss = <<>> THEN <<>> ELSE Head(ss) \o Flatten(Tail(ss))

SeqsUpTo(S, n) == UNION {[1..k -> S] : k \in 0..n}

\* sorted(list(ids)): ascending sequence of a set of strings.  The ids of the
\* model are single letters ranked by Rank, which is their lexical order.
Rank(id) == CASE id = "a" -> 1 [] id = "b" -> 2 [] id = "c" -> 3 [] OTHER -> 4

RECURSIVE sorted_descending(_)
sorted_descending(S) ==
    IF S = {} THEN <<>>
    ELSE LET m == CHOOSE x \in S : \A y \in S : Rank(x) >= Rank(y)
         IN <<m>> \o sorted_descending(S \ {m})

RECURSIVE sorted(_)
sorted(S) ==
    IF S = {} THEN <<>>
    ELSE LET m == CHOOSE x \in S : \A y \in S : Rank(x) <= Rank(y)
         IN <<m>> \o sorted(S \ {m})

Perms(S) == {p \in [1..Cardinality(S) -> S] : Range(p) = S}


-----------------------------------------------------------------------------
(* Payloads and Results (payloads.py).  None is "none"; a missing          *)
(* page_number is 0; a missing error_message is the empty tuple.           *)

DocumentPayload(job, doc, parent, page, hist) ==
    [job_id |-> job, document_id |-> doc, parent_document_id |-> parent,
     page_number |-> page, results |-> hist]

\* The payload the caller builds for run: no page context, empty history.
RootPayload == DocumentPayload("job", "none", "none", 0, <<>>)

\* The payloads a caller may hand to run: DocumentPayload.results is a field
\* of the input, empty by default or holding the dict of an earlier Result.
RootPayloads ==
    {RootPayload,
     DocumentPayload("job", "none", "none", 0,
                     <<[processor_name |-> "stub_processor", status |-> "success",
                        sr |-> "plain", n |-> 0, error_message |-> <<>>,
                        page |-> 0]>>)}

\* structured_results is summarised by its flow-control shape:
\*   "none"   structured_results is None
\*   "fanout" {"document_payloads": [n children]}
\*   "image"  {"image_data": <non-empty>}
\*   "plain"  any other non-empty dict
ProcessorResult(name, status, sr, n, err, page) ==
    [processor_name |-> name, status |-> status, sr |-> sr, n |-> n,
     error_message |-> err, page |-> page]

\* The children a fan-out result carries, built as the PDF extractor builds
\* them: the input's job_id, a fresh parent id, page_number 1..n, no history.
Children(payload, n) ==
    [k \in 1..n |-> DocumentPayload(payload.job_id, "none", "uuid", k, <<>>)]

-----------------------------------------------------------------------------
(* Factory (factory.py)                                                    *)

\* Names the model's configurations draw processors from.
\*  "ocr_processor"           registered; process is decorated with instrument_step
\*  "enhanced_pdf_processor"  registered composite; its constructor builds a
\*                            vlm_processor through the factory
\*  "stub_processor"          a BaseProcessor subclass with an undecorated
\*                            process, as a factory handed to __init__ may supply
\*  "no_such_processor"       not in the registry
ProcNames == {"ocr_processor", "enhanced_pdf_processor", "stub_processor",
              "no_such_processor"}

_processor_registry == {"image_preprocessor", "ocr_processor",
                        "pdf_extraction_processor", "vlm_processor",
                        "enhanced_pdf_processor",
                        "document_classifier_processor", "sentiment_analyzer"}

\* The names the factory given to ProcessingPipeline.__init__ resolves: the
\* registry, and stub_processor.
FactoryKnows(name) == name \in _processor_registry \/ name = "stub_processor"

\* Processors whose process method carries @instrument_step.
Instrumented(name) == name # "stub_processor"

\* create_processor returns an instance (TRUE) or raises (FALSE).  An unknown
\* name raises ValueError.  vlm_processor is constructed with the keyword
\* ollama_base_url, which VlmProcessor.__init__(config, logger) does not take:
\* TypeError.  enhanced_pdf_processor's validate_config creates a
\* vlm_processor through the factory, so its construction raises as well.
create_processor(name) ==
    /\ FactoryKnows(name)
    /\ name \notin {"vlm_processor", "enhanced_pdf_processor"}

-----------------------------------------------------------------------------
(* One execution: process, instrument_step, execute, _execute_step         *)

\* What the body of a process method does with a payload.
RawOutcomes ==
    {[kind |-> k, n |-> 0] : k \in {"raise", "failure", "image", "plain"}}
    \cup {[kind |-> "fanout", n |-> k] : k \in 0..MaxPages}

\* The ProcessorResult a process body returns (raw.kind # "raise").  A plain
\* result stamps metadata.page_number from the payload, as OcrProcessor does.
process(name, payload, raw) ==
    CASE raw.kind = "failure" ->
           ProcessorResult(name, "failure", "none", 0, <<"processor", name>>, 0)
      [] raw.kind = "fanout" ->
           ProcessorResult(name, "success", "fanout", raw.n, <<>>, 0)
      [] raw.kind = "image" ->
           ProcessorResult(name, "success", "image", 0, <<>>, 0)
      [] OTHER ->
           ProcessorResult(name, "success", "plain", 0, <<>>, payload.page_number)

\* instrument_step.wrapper.  An exception of the body is caught and turned
\* into a failure Result.  On return the wrapper reads result.results
\* (decorators.py:62); ProcessorResult has no such field, the access raises
\* AttributeError inside the same try block, and the except branch returns a
\* failure Result as well.
\* timed: whether the wrapper stamped the duration into the Result; the
\* assignment at decorators.py:63 is never reached.
instrument_step(name, payload, raw) ==
    [raised |-> FALSE,
     result |-> ProcessorResult(name, "failure", "none", 0,
                  <<"An unexpected error occurred in", name,
                    IF raw.kind = "raise" THEN "exception" ELSE "AttributeError">>,
                  0),
     timed |-> FALSE]

\* BaseProcessor.execute: sets the page context and awaits self.process.
execute(name, payload, raw) ==
    IF Instrumented(name)
    THEN instrument_step(name, payload, raw)
    ELSE IF raw.kind = "raise"
         THEN [raised |-> TRUE, result |-> ProcessorResult(name, "failure", "none", 0, <<>>, 0)]
         ELSE [raised |-> FALSE, result |-> process(name, payload, raw)]

\* The Result _execute_step returns: execute's Result, or a failure Result
\* when execute raised an Exception.
_execute_step_unguarded(name, payload, raw) == execute(name, payload, raw).result

_execute_step(name, payload, raw) ==
    LET out == execute(name, payload, raw)
    IN IF out.raised
       THEN ProcessorResult(name, "failure", "none", 0,
                            <<"Unhandled exception in", name, "exception">>, 0)
       ELSE out.result

-----------------------------------------------------------------------------
(* Pipeline configurations                                                 *)

Node(id, processor, deps) ==
    [id |-> id, processor |-> processor, dependencies |-> deps]

NodeIds == {"a", "b", "c"}

\* A dependency id that names no node.
Dangling == "zz"

\* Node lists by <<id, dependencies>>: roots, chains, fork, join, cycles,
\* dangling dependencies and repeated ids, in and out of lexical order.
DagShapes ==
    { <<>>,
      << <<"a", <<>>>> >>,
      << <<"a", <<>>>>, <<"b", <<>>>> >>,
      << <<"a", <<>>>>, <<"b", <<>>>>, <<"c", <<>>>> >>,
      << <<"a", <<>>>>, <<"b", <<"a">>>> >>,
      << <<"b", <<"a">>>>, <<"a", <<>>>> >>,
      << <<"a", <<>>>>, <<"b", <<"a">>>>, <<"c", <<"b">>>> >>,
      << <<"a", <<>>>>, <<"b", <<"a">>>>, <<"c", <<"a">>>> >>,
      << <<"b", <<>>>>, <<"a", <<>>>>, <<"c", <<"b", "a">>>> >>,
      << <<"a", <<"b">>>>, <<"b", <<"a">>>> >>,
      << <<"a", <<"a">>>> >>,
      << <<"c", <<>>>>, <<"a", <<"b">>>>, <<"b", <<"a">>>> >>,
      << <<"a", <<Dangling>>>> >>,
      << <<"a", <<>>>>, <<"b", <<"a", Dangling>>>> >>,
      << <<"a", <<>>>>, <<"a", <<>>>> >>,
      << <<"a", <<Dangling>>>>, <<"a", <<>>>> >>,
      << <<"a", <<"b">>>>, <<"b", <<"a">>>>, <<"a", <<>>>> >> }

DagNodeLists ==
    UNION { { [k \in 1..Len(sh) |-> Node(sh[k][1], f[k], sh[k][2])]
              : f \in [1..Len(sh) -> ProcNames] } : sh \in DagShapes }

PipelineConfig(mode, conc, pipeline, nodes) ==
    [execution_mode |-> mode, max_concurrency |-> conc,
     pipeline |-> pipeline, nodes |-> nodes]

\* Configurations PipelineConfig.model_validate accepts (max_concurrency > 0).
\* run knows the modes "simple" and "dag"; "linear" stands for any other
\* string, which the pydantic model accepts too.
Configs ==
    { PipelineConfig("simple", c, p, <<>>)
        : c \in 1..MaxConc, p \in SeqsUpTo(ProcNames, MaxSteps) }
    \cup { PipelineConfig("dag", c, <<>>, n)
        : c \in 1..MaxConc, n \in DagNodeLists }
    \cup { PipelineConfig("linear", c, <<"stub_processor">>, <<>>)
        : c \in 1..MaxConc }

-----------------------------------------------------------------------------
(* _get_dag_execution_order                                                *)

\* graph = {node["id"]: set(node.get("dependencies", [])) for node in nodes}
\* A later node with the same id replaces the earlier entry.
LastWithId(nodes, id) ==
    nodes[CHOOSE i \in 1..Len(nodes) :
            /\ nodes[i].id = id
            /\ \A j \in (i+1)..Len(nodes) : nodes[j].id # id]

graph(nodes) ==
    [id \in {nodes[i].id : i \in 1..Len(nodes)} |->
        Range(LastWithId(nodes, id).dependencies)]

\* The while loop: peel off the nodes without remaining dependencies.
\* The element of a one-element set: The({e(x) : x \in {v}}) is e(v) with v
\* computed once.
The(S) == CHOOSE x \in S : TRUE

RECURSIVE KahnLoop(_)
KahnLoop(g) ==
    LET ready == {name \in DOMAIN g : g[name] = {}}
    IN IF ready = {}
       THEN [levels |-> <<>>, left |-> DOMAIN g]
       ELSE The({[levels |-> <<sorted(ready)>> \o rest.levels, left |-> rest.left] :
                   rest \in {KahnLoop(h) :
                               h \in {[name \in DOMAIN g \ ready |-> g[name] \ ready]}}})

\* raised: the ValueError "A cycle was detected".
_get_dag_execution_order(nodes) ==
    The({[raised |-> r.left # {}, levels |-> IF r.left # {} THEN <<>> ELSE r.levels] :
           r \in {KahnLoop(g) : g \in {graph(nodes)}}})

-----------------------------------------------------------------------------
(* Tasks and the outcome of a stretch of executor code between two awaits  *)

NoResult == ProcessorResult("", "pending", "none", 0, <<>>, 0)

\* One coroutine _execute_step(logger, task_id, processor, payload, semaphore).
\* ctx is the payload key (linear) or the node id (dag).
Task(ctx, name, payload) ==
    [ctx |-> ctx, proc |-> name, payload |-> payload, st |-> "waiting",
     raised |-> FALSE, result |-> NoResult]

\* The executor either reaches its next asyncio.gather, returns its list of
\* results, or raises.
Outcome(kind, i, ts, ptp, all, pbs, sres, ex) ==
    [kind |-> kind, idx |-> i, tasks |-> ts, ptp |-> ptp, all |-> all,
     pbs |-> pbs, sres |-> sres, executed |-> ex]

Raises == Outcome("raise", 0, <<>>, <<>>, <<>>, <<>>, <<>>, {})
ReturnsAsFailure(all) == Raises

Returns(all) == Outcome("return", 0, <<>>, <<>>, all, <<>>, <<>>, {})

\* await asyncio.gather(*tasks) resumes when every task has its Result.
GatherDone_any(ts) == \E t \in 1..Len(ts) : ts[t].st = "done"

GatherDone(ts) == \A t \in 1..Len(ts) : ts[t].st = "done"

\* async with semaphore: a free permit is needed to enter.
CanAcquire_unbounded(p) == TRUE

CanAcquire(p) == p > 0

-----------------------------------------------------------------------------
(* _run_linear                                                             *)

\* Top of the loop body for step i: create the processor, build one
\* coroutine per payload of the map (in key insertion order), await gather.
LinearStep(cfg, i, ptp, all) ==
    IF ~create_processor(cfg.pipeline[i])
    THEN Raises
    ELSE Outcome("gather", i,
                 [k \in 1..Len(ptp) |-> Task(ptp[k].key, cfg.pipeline[i], ptp[k].payload)],
                 ptp, all, <<>>, <<>>, {})

\* The fan-out contract: a success Result whose structured_results holds a
\* list under "document_payloads" (an empty list included).
IsFanOut(res) == res.status = "success" /\ res.sr = "fanout"

\* Index of the first fan-out Result in launch order, 0 when there is none.
FirstFanOut(rs) ==
    IF \E k \in 1..Len(rs) : IsFanOut(rs[k])
    THEN CHOOSE k \in 1..Len(rs) :
            IsFanOut(rs[k]) /\ \A j \in 1..(k-1) : ~IsFanOut(rs[j])
    ELSE 0

\* next_payloads of a fan-out: the children keyed by page_number.
FanOutMap(payload, res) ==
    LET ch == Children(payload, res.n)
    IN [k \in 1..Len(ch) |-> [key |-> ch[k].page_number, payload |-> ch[k]]]

\* The filter of the 1:1 comprehension.
Forwardable(res) == res.status = "success" /\ res.sr = "image"

\* The 1:1 comprehension builds DocumentPayload(image_data=..,
\* parent_document_id=.., page_number=.., results=..) for every forwardable
\* Result.  file_content, file_name and job_id are required fields of
\* DocumentPayload without defaults, so the constructor raises
\* ValidationError.  TRUE: the comprehension raises.
PropagationRaises(rs) == \E k \in 1..Len(rs) : Forwardable(rs[k])

\* The code after await asyncio.gather for step i, up to the next gather.
LinearAfterGather(cfg, i, ptp, all, ts) ==
    LET rs == [k \in 1..Len(ts) |-> ts[k].result]
        all2 == all \o rs
        fo == FirstFanOut(rs)
        last == ~(i + 1 <= Len(cfg.pipeline))
    IN IF fo = 0 /\ ~last /\ PropagationRaises(rs)
       THEN Raises
       ELSE LET next == IF fo # 0 THEN FanOutMap(ts[fo].payload, rs[fo])
                        ELSE IF ~last THEN <<>>
                        ELSE ptp
            IN IF next = <<>> \/ last
               THEN Returns(all2)
               ELSE LinearStep(cfg, i + 1, next, all2)

_run_linear(cfg, payload) ==
    IF cfg.pipeline = <<>>
    THEN Returns(<<>>)
    ELSE LinearStep(cfg, 1, <<[key |-> 0, payload |-> payload]>>, <<>>)

-----------------------------------------------------------------------------
(* _run_dag                                                                *)

\* nodes_by_id = {node['id']: node for node in pipeline_nodes}
nodes_by_id(nodes) ==
    [id \in {nodes[i].id : i \in 1..Len(nodes)} |-> LastWithId(nodes, id)]

\* input_payloads of a node: the root payload for a node without
\* dependencies, else the payloads of its dependencies in declared order.
InputPayloads(node, pbs, payload) ==
    IF node.dependencies = <<>>
    THEN <<payload>>
    ELSE Flatten([k \in 1..Len(node.dependencies) |->
                    IF node.dependencies[k] \in DOMAIN pbs
                    THEN pbs[node.dependencies[k]] ELSE <<>>])

NodeTasks_reversed(node, pbs, payload) ==
    LET ins == InputPayloads(node, pbs, payload)
    IN [j \in 1..Len(ins) |->
          Task(node.id, node.processor, ins[Len(ins) + 1 - j])]

\* The coroutines one node contributes to its level: none when it has no
\* input payloads (the node is skipped before its processor is created).
NodeTasks(node, pbs, payload) ==
    LET ins == InputPayloads(node, pbs, payload)
    IN [j \in 1..Len(ins) |-> Task(node.id, node.processor, ins[j])]

\* Levels from L on, up to the next gather or the end of the loop.  ord is
\* the iteration order of the set executed_steps when the results are
\* collected (a set of str iterates in hash order).
RECURSIVE DagFrom(_, _, _, _, _, _, _, _)
DagFrom(cfg, levels, L, pbs, sres, ex, payload, ord) ==
    IF L > Len(levels)
    THEN LET byId == nodes_by_id(cfg.nodes)
             collected == Flatten([k \in 1..Len(ord) |->
                             IF ord[k] \in ex THEN sres[ord[k]] ELSE <<>>])
         IN IF Cardinality(ex) # Cardinality(DOMAIN byId)
            THEN Returns(collected \o
                   <<ProcessorResult("pipeline_orchestrator", "failure", "none", 0,
                                     <<"DAG execution incomplete">>, 0)>>)
            ELSE Returns(collected)
    ELSE LET byId == nodes_by_id(cfg.nodes)
             S == levels[L]
             ts == Flatten([k \in 1..Len(S) |-> NodeTasks(byId[S[k]], pbs, payload)])
         IN IF \E k \in 1..Len(S) :
                  /\ InputPayloads(byId[S[k]], pbs, payload) # <<>>
                  /\ ~create_processor(byId[S[k]].processor)
            THEN Raises
            ELSE IF ts = <<>>
                 THEN DagFrom(cfg, levels, L + 1, pbs, sres, ex \cup Range(S), payload, ord)
                 ELSE Outcome("gather", L, ts, <<>>, <<>>, pbs, sres, ex \cup Range(S))

\* Tasks of one node, in launch order.
OfNode(ts, id) == SelectSeq(ts, LAMBDA t : t.ctx = id)

\* The payloads a node's successful Results add to payloads_by_step: the
\* children of its fan-out Results.
NodeChildren(ts, id) ==
    LET mine == OfNode(ts, id)
    IN Flatten([k \in 1..Len(mine) |->
                  IF IsFanOut(mine[k].result)
                  THEN Children(mine[k].payload, mine[k].result.n) ELSE <<>>])

\* The code after await asyncio.gather for level L.  A success Result with
\* image_data that is no fan-out makes the loop build DocumentPayload without
\* its required fields: ValidationError, as in the linear executor.
DagAfterGather(cfg, levels, L, pbs, sres, ex, ts, payload, ord) ==
    IF \E t \in 1..Len(ts) : Forwardable(ts[t].result)
    THEN Raises
    ELSE LET sres2 == [id \in DOMAIN sres |->
                         sres[id] \o [k \in 1..Len(OfNode(ts, id)) |-> OfNode(ts, id)[k].result]]
             pbs2 == [id \in DOMAIN pbs |-> pbs[id] \o NodeChildren(ts, id)]
         IN DagFrom(cfg, levels, L + 1, pbs2, sres2, ex, payload, ord)

_run_dag(cfg, payload, ord) ==
    LET ids == DOMAIN nodes_by_id(cfg.nodes)
    IN The({IF o.raised THEN Raises
            ELSE IF o.levels = <<>> THEN Returns(<<>>)
            ELSE DagFrom(cfg, o.levels, 1, [id \in ids |-> <<>>],
                         [id \in ids |-> <<>>], {}, payload, ord) :
              o \in {_get_dag_execution_order(cfg.nodes)}})

-----------------------------------------------------------------------------
(* _aggregate_results and the DocumentProcessingResult of run              *)

IsAnyFailure(res) == res.status = "failure"

IsOrchestratorFailure(res) ==
    res.processor_name = "pipeline_orchestrator" /\ res.status = "failure"

\* processor_name.replace("_processor", "") + "_result", for the processor
\* names of the model.
ResultKey(name) ==
    CASE name = "ocr_processor" -> "ocr_result"
      [] name = "stub_processor" -> "stub_result"
      [] name = "vlm_processor" -> "vlm_result"
      [] name = "pdf_extraction_processor" -> "pdf_extraction_result"
      [] name = "enhanced_pdf_processor" -> "enhanced_pdf_result"
      [] name = "document_classifier_processor" -> "document_classifier_result"
      [] name = "image_preprocessor" -> "image_preprocessor_result"
      [] name = "sentiment_analyzer" -> "sentiment_analyzer_result"
      [] OTHER -> "pipeline_orchestrator_result"

\* result.structured_results as a value, and its truth value.
StructuredResults(res) == [sr |-> res.sr, n |-> res.n]
Truthy(res) == res.sr # "none"

Front(rs) == SubSeq(rs, 1, Len(rs) - 1)

\* d[key] = value on a dict held as a function.
SetItem(d, key, value) ==
    [k \in DOMAIN d \cup {key} |-> IF k = key THEN value ELSE d[k]]

\* pages_map after the loop over all_results: page_number -> page dict.
\* A success Result with a page_number creates the page; its
\* structured_results are stored under the processor's key when truthy.
RECURSIVE pages_map(_)
pages_map(rs) ==
    IF rs = <<>> THEN <<>>
    ELSE LET r == rs[Len(rs)]
         IN The({IF r.status # "success" \/ r.page = 0
                 THEN prev
                 ELSE LET page == IF r.page \in DOMAIN prev THEN prev[r.page] ELSE <<>>
                      IN SetItem(prev, r.page,
                                 IF Truthy(r)
                                 THEN SetItem(page, ResultKey(r.processor_name),
                                              StructuredResults(r))
                                 ELSE page) :
                   prev \in {pages_map(Front(rs))}})

\* aggregated_output["document_level_results"] after the loop.
RECURSIVE document_level_results(_)
document_level_results(rs) ==
    IF rs = <<>> THEN <<>>
    ELSE LET r == rs[Len(rs)]
         IN The({IF r.status = "success" /\ r.page = 0 /\ Truthy(r)
                 THEN SetItem(prev, ResultKey(r.processor_name), StructuredResults(r))
                 ELSE prev :
                   prev \in {document_level_results(Front(rs))}})

RECURSIVE sorted_pages_descending(_)
sorted_pages_descending(pm) ==
    IF DOMAIN pm = {} THEN <<>>
    ELSE LET m == CHOOSE x \in DOMAIN pm : \A y \in DOMAIN pm : x >= y
         IN The({<<[page_number |-> m, entries |-> pm[m]]>>
                   \o sorted_pages_descending(rest) :
                   rest \in {[q \in DOMAIN pm \ {m} |-> pm[q]]}})

\* sorted(pages_map.values(), key=lambda p: p["page_number"])
RECURSIVE sorted_pages(_)
sorted_pages(pm) ==
    IF DOMAIN pm = {} THEN <<>>
    ELSE LET m == CHOOSE x \in DOMAIN pm : \A y \in DOMAIN pm : x <= y
         IN The({<<[page_number |-> m, entries |-> pm[m]]>>
                   \o sorted_pages(rest) :
                   rest \in {[q \in DOMAIN pm \ {m} |-> pm[q]]}})

\* error_message of the last pipeline_orchestrator failure, <<>> when the
\* key is never set.
RECURSIVE OrchestratorMessage(_)
OrchestratorMessage(rs) ==
    IF rs = <<>> THEN <<>>
    ELSE IF IsOrchestratorFailure(rs[Len(rs)]) THEN rs[Len(rs)].error_message
    ELSE OrchestratorMessage(Front(rs))

_aggregate_results(rs, document_id) ==
    [document_id |-> document_id,
     status |-> IF \E k \in 1..Len(rs) : IsOrchestratorFailure(rs[k])
                THEN "failure" ELSE "success",
     error_message |-> OrchestratorMessage(rs),
     pages |-> The({sorted_pages(pm) : pm \in {pages_map(rs)}}),
     document_level_results |-> document_level_results(rs)]

\* final_output = None
NoOutput == [document_id |-> "none", status |-> "absent"]

DocumentProcessingResult(job, status, err, rs, out) ==
    [job_id |-> job, status |-> status, error_message |-> err,
     results |-> rs, final_output |-> out]

-----------------------------------------------------------------------------
(* Specification Spec: one call of ProcessingPipeline.run                  *)

IdxDom(cfg) == 1..Max(1, Max(Len(cfg.pipeline), Len(cfg.nodes)))

NoOrder == [raised |-> FALSE, levels |-> <<>>]
NoCall == [pc |-> "idle", storage_ok |-> TRUE, result_error |-> FALSE]

Init ==
    /\ config \in Configs
    /\ root \in RootPayloads
    /\ pc = "created"
    /\ idx = 0
    /\ tasks = <<>>
    /\ permits = 0
    /\ payloads_to_process = <<>>
    /\ all_results = <<>>
    /\ execution_levels = <<>>
    /\ payloads_by_step = <<>>
    /\ step_results = <<>>
    /\ executed_steps = {}
    /\ final_result = DocumentProcessingResult("none", "none", <<>>, <<>>, NoOutput)
    /\ launched = [i \in IdxDom(config) |-> 0]
    /\ started = [i \in IdxDom(config) |-> 0]
    /\ returned = [i \in IdxDom(config) |-> 0]
    /\ order_in = <<>>
    /\ order_out = NoOrder
    /\ svc = NoCall
    /\ call_in = <<>>
    /\ call_out = <<>>

\* The state after a stretch of executor code that ended as o.  run copies
\* the results and aggregates them when the executor returned; when it
\* raised, run's except branch leaves results empty and final_output None.
Continue(o, payload) ==
    /\ pc' = IF o.kind = "gather" THEN "gather" ELSE "done"
    /\ idx' = o.idx
    /\ tasks' = o.tasks
    /\ payloads_to_process' = o.ptp
    /\ all_results' = o.all
    /\ payloads_by_step' = o.pbs
    /\ step_results' = o.sres
    /\ executed_steps' = o.executed
    /\ launched' = IF o.kind = "gather"
                   THEN [launched EXCEPT ![o.idx] = Len(o.tasks)] ELSE launched
    /\ final_result' =
         CASE o.kind = "gather" ->
                DocumentProcessingResult(payload.job_id, "in_progress", <<>>, <<>>, NoOutput)
           [] o.kind = "return" ->
                DocumentProcessingResult(payload.job_id, "success", <<>>, o.all,
                                         _aggregate_results(o.all, payload.document_id))
           [] OTHER ->
                DocumentProcessingResult(payload.job_id, "failure",
                                         <<"Pipeline execution failed">>, <<>>, NoOutput)

\* run(payload) up to the executor's first await: give the payload a
\* document_id when it has none, dispatch on execution_mode.
Run ==
    /\ pc = "created"
    /\ \E ord \in Perms({config.nodes[i].id : i \in 1..Len(config.nodes)}) :
         LET payload == [root EXCEPT !.document_id =
                            IF @ = "none" THEN "doc_uuid" ELSE @]
             levels == IF config.execution_mode = "dag"
                       THEN _get_dag_execution_order(config.nodes).levels ELSE <<>>
         IN \E o \in {CASE config.execution_mode = "simple" -> _run_linear(config, payload)
                        [] config.execution_mode = "dag" -> _run_dag(config, payload, ord)
                        [] OTHER -> Raises} :
               /\ root' = payload
               /\ execution_levels' = levels
               /\ permits' = config.max_concurrency
               /\ Continue(o, payload)
    /\ UNCHANGED <<config, started, returned, order_in, order_out, svc,
                   call_in, call_out>>

\* Children emitted so far by the Results of the pending batch.  The model
\* lets a Result carry children only while the batch has emitted at most
\* MaxPages in all and the run has launched and emitted at most MaxExec; a
\* Result without children is always possible, so every execution in
\* progress can end.
RECURSIVE SumN(_)
SumN(ts) == IF ts = <<>> THEN 0 ELSE Head(ts).result.n + SumN(Tail(ts))

EmittedChildren(ts) == SumN(ts)

RECURSIVE SumTo(_, _)
SumTo(f, n) == IF n = 0 THEN 0 ELSE f[n] + SumTo(f, n - 1)

Launched == SumTo(launched, Len(launched))

\* A coroutine enters "async with semaphore".  Waiters are served in the
\* order gather scheduled them.
Acquire ==
    /\ pc = "gather"
    /\ CanAcquire(permits)
    /\ \E t \in 1..Len(tasks) :
         /\ tasks[t].st = "waiting"
         /\ \A u \in 1..(t-1) : tasks[u].st # "waiting"
         /\ tasks' = [tasks EXCEPT ![t].st = "running"]
    /\ permits' = permits - 1
    /\ started' = [started EXCEPT ![idx] = @ + 1]
    /\ UNCHANGED <<config, root, pc, idx, payloads_to_process, all_results,
                   execution_levels, payloads_by_step, step_results,
                   executed_steps, final_result, launched, returned,
                   order_in, order_out, svc, call_in, call_out>>

\* processor.execute returns or raises inside _execute_step; the coroutine
\* leaves the semaphore block with its Result.
Return ==
    /\ pc = "gather"
    /\ \E t \in 1..Len(tasks), raw \in RawOutcomes :
         /\ tasks[t].st = "running"
         /\ \/ raw.n = 0
            \/ /\ EmittedChildren(tasks) + raw.n <= MaxPages
               /\ Launched + EmittedChildren(tasks) + raw.n <= MaxExec
         /\ tasks' = [tasks EXCEPT
                        ![t].st = "done",
                        ![t].raised = (raw.kind = "raise"),
                        ![t].result = _execute_step(tasks[t].proc, tasks[t].payload, raw)]
    /\ permits' = permits + 1
    /\ returned' = [returned EXCEPT ![idx] = @ + 1]
    /\ UNCHANGED <<config, root, pc, idx, payloads_to_process, all_results,
                   execution_levels, payloads_by_step, step_results,
                   executed_steps, final_result, launched, started,
                   order_in, order_out, svc, call_in, call_out>>

\* asyncio.gather resumes the executor, which runs to its next gather or to
\* the end of run.
Gathered ==
    /\ pc = "gather"
    /\ GatherDone(tasks)
    /\ \E ord \in Perms({config.nodes[i].id : i \in 1..Len(config.nodes)}) :
         \E o \in {IF config.execution_mode = "simple"
                    THEN LinearAfterGather(config, idx, payloads_to_process,
                                           all_results, tasks)
                    ELSE DagAfterGather(config, execution_levels, idx,
                                        payloads_by_step, step_results,
                                        executed_steps, tasks, root, ord)} :
            Continue(o, root)
    /\ UNCHANGED <<config, root, permits, execution_levels, started, returned,
                   order_in, order_out, svc, call_in, call_out>>

Next == Run \/ Acquire \/ Return \/ Gathered

Spec == Init /\ [][Next]_vars

------------------------------------------------------------------------------
(* Specification SpecLive: one call of run under a fair event loop          *)

\* The event loop resumes every coroutine that can continue: run itself, a
\* coroutine for which the semaphore has a permit, the executor once gather
\* has every Result.  Each execution in progress eventually returns or
\* raises.
Fairness ==
    /\ WF_vars(Run)
    /\ WF_vars(Acquire)
    /\ WF_vars(Return)
    /\ WF_vars(Gathered)

\* run is handed the payload process_document builds, which has no history.
InitLive == Init /\ root = RootPayload

SpecLive == InitLive /\ [][Next]_vars /\ Fairness

------------------------------------------------------------------------------
(* Specification SpecCancel: the task awaiting run is cancelled            *)

\* The awaiting task is cancelled while run is suspended in asyncio.gather
\* with executions still pending.  gather cancels its children;
\* asyncio.CancelledError derives from BaseException, so neither the
\* "except Exception" of _execute_step nor that of run catches it: every
\* pending execution ends without a Result ("async with" hands a held permit
\* back on the way out) and the exception leaves run, which returns nothing.
\* final_result stays the local object built before the try block.
Cancel ==
    /\ pc = "gather"
    /\ \E t \in 1..Len(tasks) : tasks[t].st # "done"
    /\ pc' = "cancelled"
    /\ tasks' = [t \in 1..Len(tasks) |->
                   IF tasks[t].st = "done" THEN tasks[t]
                   ELSE [tasks[t] EXCEPT !.st = "cancelled"]]
    /\ permits' = permits
                  + Cardinality({t \in 1..Len(tasks) : tasks[t].st = "running"})
    /\ UNCHANGED <<config, root, idx, payloads_to_process, all_results,
                   execution_levels, payloads_by_step, step_results,
                   executed_steps, final_result, launched, started, returned,
                   order_in, order_out, svc, call_in, call_out>>

NextCancel == Next \/ Cancel

SpecCancel == Init /\ [][NextCancel]_vars

-----------------------------------------------------------------------------
(* Specification SpecOrder: _get_dag_execution_order on bounded node lists *)

\* Dependency lists of the node lists under test: every subset of the node
\* ids in ascending order, and a dangling dependency.
OrderDeps == {sorted(D) : D \in SUBSET NodeIds} \cup {<<Dangling>>}

OrderNodes == {Node(id, "stub_processor", d) : id \in NodeIds, d \in OrderDeps}

Idle ==
    /\ root = RootPayload
    /\ idx = 0
    /\ tasks = <<>>
    /\ permits = 0
    /\ payloads_to_process = <<>>
    /\ all_results = <<>>
    /\ execution_levels = <<>>
    /\ payloads_by_step = <<>>
    /\ step_results = <<>>
    /\ executed_steps = {}
    /\ final_result = DocumentProcessingResult("none", "none", <<>>, <<>>, NoOutput)
    /\ launched = [i \in {1} |-> 0]
    /\ started = [i \in {1} |-> 0]
    /\ returned = [i \in {1} |-> 0]

InitOrder ==
    /\ Idle
    /\ config = PipelineConfig("dag", 1, <<>>, <<>>)
    /\ pc = "order"
    /\ order_in \in SeqsUpTo(OrderNodes, MaxNodes)
    /\ order_out = NoOrder
    /\ svc = NoCall
    /\ call_in = <<>>
    /\ call_out = <<>>

ComputeOrder ==
    /\ pc = "order"
    /\ order_out' = _get_dag_execution_order(order_in)
    /\ pc' = "ordered"
    /\ UNCHANGED <<config, root, idx, tasks, permits, payloads_to_process,
                   all_results, execution_levels, payloads_by_step,
                   step_results, executed_steps, final_result, launched,
                   started, returned, order_in, svc, call_in, call_out>>

NextOrder == ComputeOrder

SpecOrder == InitOrder /\ [][NextOrder]_vars

-----------------------------------------------------------------------------
(* Specification SpecDispatch: process_document                            *)

\* PipelineConfig.model_validate: max_concurrency has Field(5, gt=0).
model_validate(cfg) == cfg.max_concurrency > 0

\* DocumentPayload(image_data=...) in process_document gives none of the
\* required fields file_content, file_name, job_id: the constructor raises
\* ValidationError.
InitialPayloadRaises == TRUE

DispatchConfigs ==
    Configs \cup { [c EXCEPT !.max_concurrency = 0] : c \in Configs }

InitDispatch ==
    /\ Idle
    /\ pc = "dispatch"
    /\ config \in DispatchConfigs
    /\ order_in = <<>>
    /\ order_out = NoOrder
    /\ svc = NoCall
    /\ call_in = <<>>
    /\ call_out = <<>>

\* The call process_document(file_data, file_name, pipeline_config,
\* correlation_id) as its end: ok is whether save_file succeeds.
process_document(cfg, ok) ==
    [pc |-> IF ~ok THEN "returned"
            ELSE IF ~model_validate(cfg) THEN "raised"
            ELSE IF InitialPayloadRaises THEN "raised"
            ELSE "returned",
     storage_ok |-> ok,
     result_error |-> ~ok]

\* process_document(file_data, file_name, pipeline_config, correlation_id).
\* save_file raising is caught and answered with a result object.  The
\* pipeline and the initial payload are built outside any try block.
ProcessDocument ==
    /\ pc = "dispatch"
    /\ svc.pc = "idle"
    /\ \E ok \in BOOLEAN : svc' = process_document(config, ok)
    /\ UNCHANGED <<runVars, order_in, order_out, call_in, call_out>>

NextDispatch == ProcessDocument

SpecDispatch == InitDispatch /\ [][NextDispatch]_vars

-----------------------------------------------------------------------------
(* Specification SpecEndpoint: POST /run and the Celery worker             *)

\* PipelineConfig._validate_config: a template is loaded only when its
\* execution_mode is "simple" or "dag".
_validate_config(cfg) == cfg.execution_mode \in {"simple", "dag"}

\* pipeline_config.get_pipeline_config(name): the template, or None when no
\* loaded template has the name.
get_pipeline_config(cfg) ==
    IF _validate_config(cfg) THEN [found |-> TRUE, config |-> cfg]
    ELSE [found |-> FALSE, config |-> cfg]

NoResponse == [kind |-> "none", job_id |-> "none"]
Response(kind, job) == [kind |-> kind, job_id |-> job]

\* call_in is the broker's queue of run_pipeline_task messages, call_out the
\* HTTP response, svc the one call of process_document the request leads to.
InitEndpoint ==
    /\ Idle
    /\ config \in DispatchConfigs
    /\ pc = "request"
    /\ order_in = <<>>
    /\ order_out = NoOrder
    /\ svc = NoCall
    /\ call_in = <<>>
    /\ call_out = NoResponse

\* run_pipeline for an unknown template: HTTPException 404.
RespondNotFound ==
    /\ pc = "request"
    /\ ~get_pipeline_config(config).found
    /\ call_out' = Response("not_found", "none")
    /\ pc' = "answered"
    /\ UNCHANGED <<config, root, idx, tasks, permits, payloads_to_process,
                   all_results, execution_levels, payloads_by_step,
                   step_results, executed_steps, final_result, launched,
                   started, returned, order_in, order_out, svc, call_in>>

\* run_pipeline_task.delay(...): the message is on the broker.
Delay ==
    /\ pc = "request"
    /\ get_pipeline_config(config).found
    /\ config.execution_mode = "dag"
    /\ call_in' = <<"celery_task_id">>
    /\ pc' = "delayed"
    /\ UNCHANGED <<config, root, idx, tasks, permits, payloads_to_process,
                   all_results, execution_levels, payloads_by_step,
                   step_results, executed_steps, final_result, launched,
                   started, returned, order_in, order_out, svc, call_out>>

\* return JobCreationResponse(job_id=task.id)
RespondJob ==
    /\ pc = "delayed"
    /\ call_out' = Response("job", "celery_task_id")
    /\ pc' = "answered"
    /\ UNCHANGED <<config, root, idx, tasks, permits, payloads_to_process,
                   all_results, execution_levels, payloads_by_step,
                   step_results, executed_steps, final_result, launched,
                   started, returned, order_in, order_out, svc, call_in>>

\* The synchronous branch: await service.process_document(...) and return
\* its result; an exception of the call leaves the handler as an error
\* response.
RespondInline ==
    /\ pc = "request"
    /\ get_pipeline_config(config).found
    /\ config.execution_mode # "dag"
    /\ \E ok \in BOOLEAN :
         /\ svc' = process_document(config, ok)
         /\ call_out' = Response(IF svc'.pc = "raised" THEN "error" ELSE "result",
                                 "none")
    /\ pc' = "answered"
    /\ UNCHANGED <<config, root, idx, tasks, permits, payloads_to_process,
                   all_results, execution_levels, payloads_by_step,
                   step_results, executed_steps, final_result, launched,
                   started, returned, order_in, order_out, call_in>>

\* run_pipeline_task in the worker process: takes the message and runs
\* process_document; it may start before the handler has returned.
Worker ==
    /\ call_in # <<>>
    /\ svc.pc = "idle"
    /\ \E ok \in BOOLEAN : svc' = process_document(config, ok)
    /\ call_in' = Tail(call_in)
    /\ UNCHANGED <<runVars, pc, order_in, order_out, call_out>>

NextEndpoint ==
    RespondNotFound \/ Delay \/ RespondJob \/ RespondInline \/ Worker

SpecEndpoint == InitEndpoint /\ [][NextEndpoint]_vars

------------------------------------------------------------------------------
(* Specification SpecLoad: PipelineConfig._load_pipelines on a directory   *)

required_keys == {"name", "description", "execution_mode", "pipeline"}

\* A *.json file: whether json.load accepts it, and the object it holds.
TemplateFile(json, data) == [json |-> json, data |-> data]

Template(name, description, mode) ==
    [name |-> name, description |-> description, execution_mode |-> mode,
     pipeline |-> <<>>]

Without(d, key) == [k \in DOMAIN d \ {key} |-> d[k]]

ValidTemplates ==
    {TemplateFile(TRUE, Template(n, d, m)) :
        n \in {"a", "b"}, d \in {"d1", "d2"}, m \in {"simple", "dag"}}

InvalidTemplates ==
    {TemplateFile(FALSE, <<>>)}
    \cup {TemplateFile(TRUE, Without(Template("a", "d1", "simple"), k)) :
             k \in required_keys}
    \cup {TemplateFile(TRUE, Template("a", "d1", "parallel"))}

TemplateFiles == ValidTemplates \cup InvalidTemplates

\* _validate_config on the object of a template file: the four required keys,
\* then the execution mode.
_validate_template(data) ==
    /\ required_keys \subseteq DOMAIN data
    /\ _validate_config(data)

\* The loop of _load_pipelines over the files in the order glob yields them.
RECURSIVE load_files(_)
load_files(files) ==
    IF files = <<>> THEN <<>>
    ELSE LET prev == load_files(Front(files))
             f == files[Len(files)]
         IN IF f.json /\ _validate_template(f.data)
            THEN SetItem(prev, f.data.name, f.data)
            ELSE prev

InitLoad ==
    /\ Idle
    /\ config = PipelineConfig("simple", 1, <<>>, <<>>)
    /\ pc = "load"
    /\ order_in = <<>>
    /\ order_out = NoOrder
    /\ svc = NoCall
    /\ call_in \in [1..MaxFiles -> TemplateFiles]
    /\ call_out = <<>>

\* _load_pipelines(): glob yields the files in an order the file system
\* chooses; order_in keeps it, call_out is _pipeline_configs afterwards.
LoadPipelines ==
    /\ pc = "load"
    /\ \E ord \in Perms(1..MaxFiles) :
         /\ order_in' = ord
         /\ call_out' = load_files([k \in 1..MaxFiles |-> call_in[ord[k]]])
    /\ pc' = "loaded"
    /\ UNCHANGED <<config, root, idx, tasks, permits, payloads_to_process,
                   all_results, execution_levels, payloads_by_step,
                   step_results, executed_steps, final_result, launched,
                   started, returned, order_out, svc, call_in>>

NextLoad == LoadPipelines

SpecLoad == InitLoad /\ [][NextLoad]_vars

------------------------------------------------------------------------------
(* Specification SpecExtract: PDFImageExtractionProcessor.process          *)

\* One comma-separated part of page_range after strip():
\*   "int"       int(part) succeeds, no '-' in the part
\*   "range"     'start-end' with two integers
\*   "malformed" int() raises ValueError (letters, 'a-b-c', '-3', '3-')
\*   "blank"     the empty string
IntToken(n) == [kind |-> "int", start |-> n, end |-> n]
RangeToken(a, b) == [kind |-> "range", start |-> a, end |-> b]
MalformedToken == [kind |-> "malformed", start |-> 0, end |-> 0]
BlankToken == [kind |-> "blank", start |-> 0, end |-> 0]

PageTokens ==
    {IntToken(n) : n \in 0..(MaxPdfPages + 1)}
    \cup {RangeToken(a, b) : a, b \in 0..(MaxPdfPages + 1)}
    \cup {MalformedToken, BlankToken}

\* One iteration of the loop of _parse_page_range: the part raises
\* ValueError, or names a set of pages.
parse_part(part, max_pages) ==
    CASE part.kind = "blank" -> [raised |-> FALSE, pages |-> {}]
      [] part.kind = "malformed" -> [raised |-> TRUE, pages |-> {}]
      [] part.kind = "range" ->
           IF part.start > part.end \/ part.start < 1 \/ part.end > max_pages
           THEN [raised |-> TRUE, pages |-> {}]
           ELSE [raised |-> FALSE, pages |-> part.start..part.end]
      [] OTHER ->
           IF part.start < 1 \/ part.start > max_pages
           THEN [raised |-> TRUE, pages |-> {}]
           ELSE [raised |-> FALSE, pages |-> {part.start}]

RECURSIVE parse_parts(_, _)
parse_parts(parts, max_pages) ==
    IF parts = <<>> THEN [raised |-> FALSE, pages |-> {}]
    ELSE LET prev == parse_parts(Front(parts), max_pages)
             this == parse_part(parts[Len(parts)], max_pages)
         IN IF prev.raised \/ this.raised
            THEN [raised |-> TRUE, pages |-> {}]
            ELSE [raised |-> FALSE, pages |-> prev.pages \cup this.pages]

\* _parse_page_range(page_range_str, max_pages).  The list of parts is empty
\* for a page_range that is None or the empty string.
_parse_page_range(parts, max_pages) ==
    IF parts = <<>> THEN [raised |-> FALSE, pages |-> 1..max_pages]
    ELSE parse_parts(parts, max_pages)

\* The ascending list of a set of page numbers.
RECURSIVE sorted_numbers(_)
sorted_numbers(S) ==
    IF S = {} THEN <<>>
    ELSE LET m == CHOOSE x \in S : \A y \in S : x <= y
         IN <<m>> \o sorted_numbers(S \ {m})

\* The body of process for a payload with file content whose PDF has
\* max_pages pages: the Result and the child payloads it carries.
extract_pages(payload, parts, max_pages) ==
    LET target == _parse_page_range(parts, max_pages)
        nums == sorted_numbers(target.pages \cap 1..max_pages)
    IN IF target.raised
       THEN [status |-> "failure", has_payloads |-> FALSE, children |-> <<>>]
       ELSE [status |-> "success", has_payloads |-> TRUE,
             children |-> [k \in 1..Len(nums) |->
                             DocumentPayload(payload.job_id, "none", "uuid",
                                             nums[k], <<>>)]]

\* process as callers see it, through instrument_step.
extractor_process(payload, parts, max_pages) ==
    LET body == extract_pages(payload, parts, max_pages)
        raw == [kind |-> IF body.status = "failure" THEN "failure" ELSE "fanout",
                n |-> Len(body.children)]
        out == instrument_step("pdf_extraction_processor", payload, raw).result
    IN [body |-> body,
        result |-> out,
        children |-> IF out.sr = "fanout" THEN body.children ELSE <<>>]

InitExtract ==
    /\ Idle
    /\ config = PipelineConfig("simple", 1, <<>>, <<>>)
    /\ pc = "extract"
    /\ order_in = <<>>
    /\ order_out = NoOrder
    /\ svc = NoCall
    /\ call_in \in [max_pages : 1..MaxPdfPages,
                    page_range : SeqsUpTo(PageTokens, MaxTokens)]
    /\ call_out = <<>>

\* await processor.process(payload, logger=logger) on the PDF extractor.
Extract ==
    /\ pc = "extract"
    /\ call_out' = extractor_process(root, call_in.page_range, call_in.max_pages)
    /\ pc' = "extracted"
    /\ UNCHANGED <<config, root, idx, tasks, permits, payloads_to_process,
                   all_results, execution_levels, payloads_by_step,
                   step_results, executed_steps, final_result, launched,
                   started, returned, order_in, order_out, svc, call_in>>

NextExtract == Extract

SpecExtract == InitExtract /\ [][NextExtract]_vars

-----------------------------------------------------------------------------
(* Specification SpecStatus: GET /status/{job_id} of a deferred job        *)

\* The Celery state run_pipeline_task leaves in the result backend.  The
\* task returns (SUCCESS) only when process_document returned and the
\* logging of result.job_id and result.status succeeded; the result object
\* of a storage failure has neither attribute, so the task's except branch
\* sets FAILURE and re-raises, as it does when process_document raised.
run_pipeline_task(cfg, ok) ==
    LET r == process_document(cfg, ok)
    IN IF r.pc = "returned" /\ ~r.result_error THEN "SUCCESS" ELSE "FAILURE"

\* get_task_status: the JobStatus answered for a Celery state.
get_task_status(task_state) ==
    CASE task_state \in {"PENDING", "RETRY"} -> "in_progress"
      [] task_state = "SUCCESS" -> "success"
      [] task_state = "FAILURE" -> "failed"
      [] OTHER -> "failed"

DagTemplates == {c \in DispatchConfigs : c.execution_mode = "dag"}

\* call_in is the state the result backend holds for the job id (PENDING
\* when it holds no record), call_out the statuses answered so far.
InitStatus ==
    /\ Idle
    /\ config \in DagTemplates
    /\ pc = "queued"
    /\ order_in = <<>>
    /\ order_out = NoOrder
    /\ svc = NoCall
    /\ call_in = "PENDING"
    /\ call_out = <<>>

\* The worker runs the task and the backend stores its final state.
WorkerTask ==
    /\ pc = "queued"
    /\ \E ok \in BOOLEAN :
         /\ svc' = process_document(config, ok)
         /\ call_in' = run_pipeline_task(config, ok)
    /\ pc' = "stored"
    /\ UNCHANGED <<config, root, idx, tasks, permits, payloads_to_process,
                   all_results, execution_levels, payloads_by_step,
                   step_results, executed_steps, final_result, launched,
                   started, returned, order_in, order_out, call_out>>

\* The backend drops the stored result when result_expires has passed
\* (celery_app.py keeps Celery's default); an id without a record reads as
\* PENDING.
Expire ==
    /\ pc = "stored"
    /\ call_in' = "PENDING"
    /\ pc' = "expired"
    /\ UNCHANGED <<config, root, idx, tasks, permits, payloads_to_process,
                   all_results, execution_levels, payloads_by_step,
                   step_results, executed_steps, final_result, launched,
                   started, returned, order_in, order_out, svc, call_out>>

\* One status query.
Query ==
    /\ Len(call_out) < MaxQueries
    /\ call_out' = Append(call_out, get_task_status(call_in))
    /\ UNCHANGED <<runVars, order_in, order_out, svc, call_in>>

NextStatus == WorkerTask \/ Expire \/ Query

SpecStatus == InitStatus /\ [][NextStatus]_vars

-----------------------------------------------------------------------------
(* Specification SpecTopic: messages on job:<job_id> of a deferred job     *)

\* kwargs.get('job_id') in the wrapper when the call comes from
\* BaseProcessor.execute, which passes the payload and the logger only.
execute_job_id == "none"

\* What one call of instrument_step.wrapper publishes on job:<job_id>:
\* nothing without a job_id, else IN_PROGRESS and then FAILURE from the
\* except branch every call ends in.
wrapper_publishes(job_id) ==
    IF job_id = "none" THEN <<>> ELSE <<"IN_PROGRESS", "FAILURE">>

\* What run_pipeline_task publishes: the handler, the task and the service
\* publish nothing themselves, and process_document ends before any
\* processor is executed.
task_publishes(cfg, ok) ==
    LET r == process_document(cfg, ok)
    IN IF r.pc = "returned" /\ ~r.result_error
       THEN wrapper_publishes(execute_job_id) ELSE <<>>

\* pc is the job's state, call_in the messages published on its topic so
\* far.
InitTopic ==
    /\ Idle
    /\ config \in DagTemplates
    /\ pc = "created"
    /\ order_in = <<>>
    /\ order_out = NoOrder
    /\ svc = NoCall
    /\ call_in = <<>>
    /\ call_out = <<>>

\* A worker takes the task.
TaskStarts ==
    /\ pc = "created"
    /\ pc' = "in_progress"
    /\ UNCHANGED <<config, root, idx, tasks, permits, payloads_to_process,
                   all_results, execution_levels, payloads_by_step,
                   step_results, executed_steps, final_result, launched,
                   started, returned, order_in, order_out, svc, call_in,
                   call_out>>

\* The task ends and its state is stored.
TaskEnds ==
    /\ pc = "in_progress"
    /\ \E ok \in BOOLEAN :
         /\ svc' = process_document(config, ok)
         /\ call_in' = call_in \o task_publishes(config, ok)
         /\ pc' = get_task_status(run_pipeline_task(config, ok))
    /\ UNCHANGED <<config, root, idx, tasks, permits, payloads_to_process,
                   all_results, execution_levels, payloads_by_step,
                   step_results, executed_steps, final_result, launched,
                   started, returned, order_in, order_out, call_out>>

NextTopic == TaskStarts \/ TaskEnds

SpecTopic == InitTopic /\ [][NextTopic]_vars

-----------------------------------------------------------------------------
(* Specification SpecWrapper: one call of an instrumented process           *)

PagePayloads ==
    {DocumentPayload("job", "doc_uuid", IF k = 0 THEN "none" ELSE "uuid", k, <<>>)
       : k \in 0..MaxPages}

WrapperCalls ==
    {[name |-> nm, payload |-> p, raw |-> r] :
        nm \in _processor_registry, p \in PagePayloads, r \in RawOutcomes}

InitWrapper ==
    /\ Idle
    /\ config = PipelineConfig("simple", 1, <<>>, <<>>)
    /\ pc = "wrap"
    /\ order_in = <<>>
    /\ order_out = NoOrder
    /\ svc = NoCall
    /\ call_in \in WrapperCalls
    /\ call_out = <<>>

\* await processor.process(payload, logger=logger) on a decorated process.
CallWrapper ==
    /\ pc = "wrap"
    /\ call_out' = instrument_step(call_in.name, call_in.payload, call_in.raw)
    /\ pc' = "wrapped"
    /\ UNCHANGED <<config, root, idx, tasks, permits, payloads_to_process,
                   all_results, execution_levels, payloads_by_step,
                   step_results, executed_steps, final_result, launched,
                   started, returned, order_in, order_out, svc, call_in>>

NextWrapper == CallWrapper

SpecWrapper == InitWrapper /\ [][NextWrapper]_vars

-----------------------------------------------------------------------------
(* Specification SpecAggregate: _aggregate_results on bounded lists        *)

\* Results the lists are drawn from: success Results of two processors with
\* and without a page_number and with two kinds of structured_results,
\* success Results without structured_results, failure Results that carry
\* structured_results, a document-level fan-out Result and two failure
\* Results of the orchestrator.
AggResults ==
    {ProcessorResult(nm, "success", sr, 0, <<>>, pg) :
        nm \in {"ocr_processor", "stub_processor"},
        sr \in {"image", "plain"}, pg \in 0..MaxPages}
    \cup {ProcessorResult("ocr_processor", "success", "none", 0, <<>>, pg) :
        pg \in 0..MaxPages}
    \cup {ProcessorResult("ocr_processor", "failure", "plain", 0,
                          <<"processor", "ocr_processor">>, pg) :
        pg \in 0..MaxPages}
    \cup {ProcessorResult("stub_processor", "success", "fanout", 1, <<>>, 0),
          ProcessorResult("pipeline_orchestrator", "failure", "none", 0,
                          <<"DAG execution incomplete">>, 0),
          ProcessorResult("pipeline_orchestrator", "failure", "none", 0,
                          <<"DAG execution incomplete", "b">>, 0)}

InitAggregate ==
    /\ Idle
    /\ config = PipelineConfig("simple", 1, <<>>, <<>>)
    /\ pc = "aggregate"
    /\ order_in = <<>>
    /\ order_out = NoOrder
    /\ svc = NoCall
    /\ call_in = <<>>
    /\ call_out = <<>>

\* all_step_results.append(result): the list the aggregator is given grows
\* one Result at a time.
AppendResult ==
    /\ pc = "aggregate"
    /\ Len(call_in) < MaxResults
    /\ \E r \in AggResults : call_in' = Append(call_in, r)
    /\ UNCHANGED <<config, root, pc, idx, tasks, permits, payloads_to_process,
                   all_results, execution_levels, payloads_by_step,
                   step_results, executed_steps, final_result, launched,
                   started, returned, order_in, order_out, svc, call_out>>

all_results_consumed(rs) == <<>>

\* The caller's list after a call of _aggregate_results: the function only
\* iterates over all_results and reads its elements.
all_results_after(rs) == rs

\* self._aggregate_results(log, all_step_results, payload.document_id)
Aggregate ==
    /\ pc = "aggregate"
    /\ call_out' = _aggregate_results(call_in, "doc_uuid")
    /\ call_in' = all_results_after(call_in)
    /\ pc' = "aggregated"
    /\ UNCHANGED <<config, root, idx, tasks, permits, payloads_to_process,
                   all_results, execution_levels, payloads_by_step,
                   step_results, executed_steps, final_result, launched,
                   started, returned, order_in, order_out, svc>>

\* A second call on the list the first call left behind, with the same
\* document id.
AggregateAgain ==
    /\ pc = "aggregated"
    /\ call_out' = _aggregate_results(call_in, "doc_uuid")
    /\ call_in' = all_results_after(call_in)
    /\ pc' = "aggregated_twice"
    /\ UNCHANGED <<config, root, idx, tasks, permits, payloads_to_process,
                   all_results, execution_levels, payloads_by_step,
                   step_results, executed_steps, final_result, launched,
                   started, returned, order_in, order_out, svc>>

NextAggregate == AppendResult \/ Aggregate \/ AggregateAgain

SpecAggregate == InitAggregate /\ [][NextAggregate]_vars

-----------------------------------------------------------------------------
(* Properties of the executors (Spec)                                      *)

Running == {t \in 1..Len(tasks) : tasks[t].st = "running"}
Waiting == {t \in 1..Len(tasks) : tasks[t].st = "waiting"}
Done == {t \in 1..Len(tasks) : tasks[t].st = "done"}

Started == SumTo(started, Len(started))

\* C1: at every instant of a run the number of processor executions that
\* have started and not yet returned is at most max_concurrency.  (The
\* composite enhanced_pdf_processor cannot be constructed, so no execution
\* of an inner processor exists to be counted.)
C1_ConcurrencyBound ==
    /\ Cardinality(Running) <= config.max_concurrency
    /\ Started - SumTo(returned, Len(returned)) <= config.max_concurrency
    /\ pc = "gather" => permits = config.max_concurrency - Cardinality(Running)

\* The limit is reached while another execution of the batch still waits.
C1_Witness ==
    /\ pc = "gather"
    /\ Cardinality(Running) = config.max_concurrency
    /\ Waiting # {}

\* C2: in a linear run one execution is launched per payload of the current
\* map, and no execution of step i+1 starts before every execution of step i
\* has returned.
C2_LinearBarrier ==
    config.execution_mode = "simple" =>
        /\ pc = "gather" => launched[idx] = Len(payloads_to_process)
        /\ \A i \in DOMAIN started :
             (i > 1 /\ started[i] > 0) =>
                 /\ launched[i - 1] > 0
                 /\ returned[i - 1] = launched[i - 1]

\* The third step has started after a second step of two executions.
C2_Witness ==
    /\ config.execution_mode = "simple"
    /\ Len(config.pipeline) = 3
    /\ launched[2] = 2
    /\ started[3] > 0

\* C3: in a DAG run no execution of a node of level L+1 starts before every
\* execution launched for the nodes of level L has returned.
C3_DagBarrier ==
    config.execution_mode = "dag" =>
        \A L \in DOMAIN started :
            \A K \in DOMAIN started :
                (K < L /\ started[L] > 0) => returned[K] = launched[K]

\* A join node has started after a level of two root executions.
C3_Witness ==
    /\ config.execution_mode = "dag"
    /\ Len(execution_levels) >= 2
    /\ launched[1] = 2
    /\ started[2] > 0

\* The executor resumes after a gather: it ends the run or launches the
\* next batch.
GatherStep == pc = "gather" /\ (pc' = "done" \/ idx' # idx)

RaisedTasks == {t \in Done : tasks[t].raised}

\* Children emitted by the executions of node id that did not raise.
NonRaisedChildren(id) ==
    SumN(SelectSeq(tasks, LAMBDA t : t.ctx = id /\ ~t.raised))

C10_Converted ==
    \A t \in RaisedTasks :
        /\ tasks[t].result.status = "failure"
        /\ tasks[t].result.processor_name = tasks[t].proc
        /\ "exception" \in Range(tasks[t].result.error_message)
        /\ tasks[t].proc \in Range(tasks[t].result.error_message)
        /\ tasks[t].result.sr = "none"
        /\ tasks[t].result.n = 0

C10_NotForwarded ==
    GatherStep =>
        /\ (\A t \in 1..Len(tasks) : tasks[t].raised) =>
              /\ config.execution_mode = "simple" =>
                    /\ pc' = "done"
                    /\ final_result'.status = "success"
              /\ (config.execution_mode = "dag" /\ pc' = "gather") =>
                    payloads_by_step' = payloads_by_step
        /\ (config.execution_mode = "simple" /\ pc' = "gather") =>
              \E t \in 1..Len(tasks) :
                  /\ ~tasks[t].raised
                  /\ tasks[t].result.status = "success"
                  /\ [k \in 1..Len(tasks') |-> tasks'[k].payload]
                       = Children(tasks[t].payload, tasks[t].result.n)
        /\ (config.execution_mode = "dag" /\ pc' = "gather") =>
              \A id \in DOMAIN payloads_by_step :
                  Len(payloads_by_step'[id])
                    = Len(payloads_by_step[id]) + NonRaisedChildren(id)

\* C10: an execution that raises yields a failure Result whose error_message
\* names the processor and the exception; the exception does not fail the
\* run, and every payload handed to a later step or node is a child of an
\* execution that did not raise.
C10_ExceptionToFailure == []C10_Converted /\ [][C10_NotForwarded]_vars

\* A batch in which one execution raised and another fanned out has been
\* gathered, and the next batch runs on the children of the latter.
C10_Witness ==
    /\ pc = "gather"
    /\ idx > 1
    /\ Len(tasks) > 0
    /\ \E k \in 1..Len(all_results) :
          /\ all_results[k].status = "failure"
          /\ "exception" \in Range(all_results[k].error_message)
          /\ all_results[k].error_message[1] = "Unhandled exception in"

-----------------------------------------------------------------------------
(* Properties of _get_dag_execution_order (SpecOrder)                      *)

IdsOf(nodes) == {nodes[i].id : i \in 1..Len(nodes)}

UniqueIds(nodes) ==
    \A i, j \in 1..Len(nodes) : nodes[i].id = nodes[j].id => i = j

DepsResolve(nodes) ==
    \A i \in 1..Len(nodes) : Range(nodes[i].dependencies) \subseteq IdsOf(nodes)

\* A dependency cycle: a non-empty set of nodes each of which depends on a
\* node of the set.
HasCycle(nodes) ==
    \E S \in SUBSET (1..Len(nodes)) :
        /\ S # {}
        /\ \A i \in S : \E j \in S : nodes[j].id \in Range(nodes[i].dependencies)

AcyclicDag(nodes) == UniqueIds(nodes) /\ DepsResolve(nodes) /\ ~HasCycle(nodes)

DeclaredDeps(nodes, id) ==
    UNION {Range(nodes[i].dependencies) : i \in {k \in 1..Len(nodes) : nodes[k].id = id}}

Earlier(levels, L) == UNION {Range(levels[K]) : K \in 1..(L - 1)}

\* C4: for every acyclic DAG (ids unique, every dependency the id of a node)
\* _get_dag_execution_order returns levels that partition the node ids,
\* level L being exactly the nodes not in an earlier level whose
\* dependencies all lie in earlier levels, each level in ascending order.
C4_LevelsOfAcyclicDag ==
    (pc = "ordered" /\ AcyclicDag(order_in)) =>
        LET levels == order_out.levels
        IN /\ ~order_out.raised
           /\ UNION {Range(levels[L]) : L \in 1..Len(levels)} = IdsOf(order_in)
           /\ \A L \in 1..Len(levels) :
                /\ levels[L] # <<>>
                /\ Range(levels[L]) =
                     {id \in IdsOf(order_in) \ Earlier(levels, L) :
                        DeclaredDeps(order_in, id) \subseteq Earlier(levels, L)}
                /\ \A i, j \in 1..Len(levels[L]) :
                     i < j => Rank(levels[L][i]) < Rank(levels[L][j])

\* Two levels, the first with two nodes listed out of order in the config.
C4_Witness ==
    /\ pc = "ordered"
    /\ AcyclicDag(order_in)
    /\ Len(order_in) = 3
    /\ order_in[1].id = "b"
    /\ Len(order_out.levels) = 2
    /\ order_out.levels[1] = <<"a", "b">>

-----------------------------------------------------------------------------
(* Configuration errors (Spec) and the dispatcher (SpecDispatch)           *)

IsDag == config.execution_mode = "dag"

Rejected == pc = "done" => final_result.status = "failure"

\* C5: a DAG config with a dependency cycle performs no processor
\* execution, emits no Results, and its Document Processing Result has
\* final_output.status = failure.
C5_CycleRejected ==
    (IsDag /\ UniqueIds(config.nodes) /\ HasCycle(config.nodes)) =>
        /\ Started = 0
        /\ pc = "done" =>
             /\ final_result.results = <<>>
             /\ final_result.final_output.status = "failure"

\* C6: a DAG config with a dependency id that is the id of no node is
\* rejected before any processor executes.
C6_DanglingRejected ==
    (IsDag /\ ~DepsResolve(config.nodes)) => (Started = 0 /\ Rejected)

\* C7: a DAG config in which two nodes share an id is rejected before any
\* processor executes.
C7_DuplicateIdRejected ==
    (IsDag /\ ~UniqueIds(config.nodes)) => (Started = 0 /\ Rejected)

NamesUnknownProcessor ==
    \/ /\ config.execution_mode = "simple"
       /\ \E i \in 1..Len(config.pipeline) :
             ~FactoryKnows(config.pipeline[i])
    \/ /\ IsDag
       /\ UniqueIds(config.nodes)
       /\ \E i \in 1..Len(config.nodes) :
             ~FactoryKnows(config.nodes[i].processor)

\* C8: when a step or a node names a processor that is not in the registry,
\* the run fails with no processor execution and an empty results list.
C8_UnknownProcessorRejected ==
    NamesUnknownProcessor =>
        /\ Started = 0
        /\ pc = "done" =>
             /\ final_result.status = "failure"
             /\ final_result.results = <<>>

\* C9: process_document returns a result and never raises.
C9_DispatcherNeverRaises == svc.pc # "raised"

-----------------------------------------------------------------------------
(* The instrumentation wrapper on success (SpecWrapper)                    *)

BodySucceeds == call_in.raw.kind \notin {"raise", "failure"}

\* C11: when the wrapped process returns a success Result, the instrumented
\* call returns that Result, status success and structured_results
\* unchanged, with execution_time_ms stamped into its metadata.
C11_SuccessPassedThrough ==
    (pc = "wrapped" /\ BodySucceeds) =>
        LET r == process(call_in.name, call_in.payload, call_in.raw)
        IN /\ ~call_out.raised
           /\ call_out.result.status = "success"
           /\ call_out.result.sr = r.sr
           /\ call_out.result.n = r.n
           /\ call_out.timed

-----------------------------------------------------------------------------
(* Propagation between linear steps (Spec)                                 *)

\* The linear executor resumes after the gather of a step that is not the
\* last, and the processor of the next step can be created.
LinearGather ==
    /\ config.execution_mode = "simple"
    /\ GatherStep
    /\ idx < Len(config.pipeline)
    /\ create_processor(config.pipeline[idx + 1])

\* Payload keys of the gathered step by what their Result carries.
ImageKeys ==
    {k \in 1..Len(tasks) :
        tasks[k].result.status = "success" /\ tasks[k].result.sr = "image"}

FailureKeys == {k \in 1..Len(tasks) : tasks[k].result.status = "failure"}

ListKeys ==
    {k \in 1..Len(tasks) :
        tasks[k].result.status = "success" /\ tasks[k].result.sr = "fanout"}

NonEmptyListKeys == {k \in ListKeys : tasks[k].result.n > 0}

NextStepRuns == pc' = "gather" /\ idx' = idx + 1

\* C12: in a linear step over several payloads, a failure Result for one key
\* does not change what is forwarded for the others: every key whose Result
\* is success with image_data is in the next map and runs in the next step.
C12_FailureIsolated ==
    [][(LinearGather /\ ListKeys = {} /\ FailureKeys # {}) =>
          \A k \in ImageKeys :
              /\ NextStepRuns
              /\ \E j \in 1..Len(tasks') :
                    /\ payloads_to_process'[j].key = payloads_to_process[k].key
                    /\ tasks'[j].proc = config.pipeline[idx + 1]]_vars

\* C13: the next map of a linear step is the children of the first Result, in
\* launch order, whose document_payloads is a non-empty list, keyed by
\* page_number.
C13_FirstNonEmptyFanOut ==
    [][(LinearGather /\ NonEmptyListKeys # {}) =>
          LET f == CHOOSE k \in NonEmptyListKeys :
                       \A j \in NonEmptyListKeys : k <= j
              ch == Children(tasks[f].payload, tasks[f].result.n)
          IN /\ NextStepRuns
             /\ [j \in 1..Len(tasks') |-> tasks'[j].payload] = ch
             /\ [j \in 1..Len(tasks') |-> payloads_to_process'[j].key]
                  = [j \in 1..Len(ch) |-> ch[j].page_number]]_vars

\* C14: a linear step that does not fan out and is not the last forwards
\* exactly the keys whose Result is success with image_data; each forwarded
\* payload keeps the input's parent_document_id and page_number and has the
\* input's results history with this step's Result appended.
C14_OneToOnePropagation ==
    [][(LinearGather /\ ListKeys = {} /\ ImageKeys # {}) =>
          /\ NextStepRuns
          /\ Len(tasks') = Cardinality(ImageKeys)
          /\ \A k \in ImageKeys :
                \E j \in 1..Len(tasks') :
                    /\ payloads_to_process'[j].key = payloads_to_process[k].key
                    /\ tasks'[j].payload.parent_document_id
                         = tasks[k].payload.parent_document_id
                    /\ tasks'[j].payload.page_number = tasks[k].payload.page_number
                    /\ tasks'[j].payload.results
                         = Append(tasks[k].payload.results, tasks[k].result)]_vars

-----------------------------------------------------------------------------
(* Early stop of a linear run (Spec)                                       *)

FirstListKey == CHOOSE k \in ListKeys : \A j \in ListKeys : k <= j

\* The map the executor holds after the gathered step is empty: the first
\* list it honours is empty, or nothing fans out and no Result carries
\* image_data.
NextMapEmpty ==
    IF ListKeys # {} THEN tasks[FirstListKey].result.n = 0 ELSE ImageKeys = {}

EarlyStop ==
    /\ config.execution_mode = "simple"
    /\ GatherStep
    /\ idx < Len(config.pipeline)
    /\ NextMapEmpty

C15_StopsAndReturns ==
    EarlyStop =>
        LET rs == all_results \o [k \in 1..Len(tasks) |-> tasks[k].result]
        IN /\ pc' = "done"
           /\ started' = started
           /\ \A i \in DOMAIN started : i > idx => started[i] = 0
           /\ final_result'.status = "success"
           /\ final_result'.results = rs
           /\ final_result'.final_output = _aggregate_results(rs, root.document_id)

C15_NothingAfterDone == pc = "done" => (pc' = "done" /\ started' = started)

\* C15: once the next map is empty after a non-final linear step, no
\* processor of a later step is executed, the run returns the Results of the
\* completed steps with their aggregation, and its status is not failure.
C15_EarlyStop == [][C15_StopsAndReturns /\ C15_NothingAfterDone]_vars

\* A three-step run ended with success after its second step; the third
\* step never started.
C15_Witness ==
    /\ config.execution_mode = "simple"
    /\ Len(config.pipeline) = 3
    /\ pc = "done"
    /\ final_result.status = "success"
    /\ Len(final_result.results) >= 2
    /\ started[1] > 0
    /\ started[2] > 0
    /\ started[3] = 0

-----------------------------------------------------------------------------
(* Skipped nodes and failed levels of a DAG run (Spec)                     *)

WellFormedDagRun == IsDag /\ AcyclicDag(config.nodes)

DepsOfNode(id) == Range(nodes_by_id(config.nodes)[id].dependencies)

\* C16: in a DAG run a node with a declared dependency that produced zero
\* payloads is skipped: no execution of it is launched, even when its other
\* dependencies produced payloads.
C16_SkippedOnEmptyDependency ==
    (WellFormedDagRun /\ pc = "gather") =>
        \A t \in 1..Len(tasks) :
            \A d \in DepsOfNode(tasks[t].ctx) : payloads_by_step[d] # <<>>

RunSucceeded == pc = "done" /\ final_result.status = "success"

AllResultsFailed ==
    /\ final_result.results # <<>>
    /\ \A k \in 1..Len(final_result.results) :
          /\ final_result.results[k].status = "failure"
          /\ final_result.results[k].processor_name # "pipeline_orchestrator"

HasDownstreamNode ==
    \E i \in 1..Len(config.nodes) : config.nodes[i].dependencies # <<>>

\* C17: in a DAG run a downstream node all of whose dependencies produced
\* only failure Results is not executed and is recorded in the results list
\* as a Result with status skipped.
C17_SkippedRecorded ==
    (WellFormedDagRun /\ RunSucceeded /\ AllResultsFailed /\ HasDownstreamNode) =>
        /\ \A L \in 2..Len(execution_levels) : started[L] = 0
        /\ \E k \in 1..Len(final_result.results) :
              final_result.results[k].status = "skipped"

\* C18: if every execution of some DAG level returns a failure Result, the
\* final status of the run is failed, never success.
C18_FailedLevelFailsRun ==
    [][(WellFormedDagRun /\ GatherStep /\ pc' = "done"
          /\ \A t \in 1..Len(tasks) : tasks[t].result.status = "failure")
        => final_result'.status \in {"failure", "failed"}]_vars

SomeLevelNotExecuted ==
    \E L \in 1..Len(execution_levels) : launched[L] = 0

EveryNodeExecuted ==
    \A L \in 1..Len(execution_levels) :
        /\ launched[L] > 0
        /\ L = 1 \/ Len(execution_levels[L]) = 1

EndsWithOrchestratorFailure ==
    /\ final_result.results # <<>>
    /\ IsOrchestratorFailure(final_result.results[Len(final_result.results)])

\* C19: after all DAG levels, if some configured node was not executed the
\* results list ends with a failure Result of pipeline_orchestrator and the
\* run is marked failed; if every node was executed no such Result is added.
C19_IncompleteRunMarked ==
    (WellFormedDagRun /\ pc = "done" /\ final_result.status # "failure") =>
        /\ SomeLevelNotExecuted =>
              /\ EndsWithOrchestratorFailure
              /\ final_result.final_output.status = "failure"
        /\ EveryNodeExecuted =>
              \A k \in 1..Len(final_result.results) :
                  ~IsOrchestratorFailure(final_result.results[k])


-----------------------------------------------------------------------------
(* Properties of the aggregator (SpecAggregate)                            *)

Aggregated == pc = "aggregated"

\* The successful Results of the list that carry page_number p.
PageSuccesses(p) ==
    {k \in 1..Len(call_in) :
        call_in[k].status = "success" /\ call_in[k].page = p}

PageNumbers == {call_out.pages[i].page_number : i \in 1..Len(call_out.pages)}

EntriesOf(p) ==
    IF p = 0 THEN call_out.document_level_results
    ELSE IF \E i \in 1..Len(call_out.pages) : call_out.pages[i].page_number = p
    THEN LET i == CHOOSE i \in 1..Len(call_out.pages) :
                      call_out.pages[i].page_number = p
         IN call_out.pages[i].entries
    ELSE <<>>

\* What the aggregated output holds for a processor on page p; a missing key
\* reads as structured_results None.
Held(name, p) ==
    IF ResultKey(name) \in DOMAIN EntriesOf(p)
    THEN EntriesOf(p)[ResultKey(name)]
    ELSE [sr |-> "none", n |-> 0]

SameSlot(i, j) ==
    /\ call_in[i].status = "success" /\ call_in[j].status = "success"
    /\ call_in[i].processor_name = call_in[j].processor_name
    /\ call_in[i].page = call_in[j].page

\* C21: of two successful Results with the same processor_name and the same
\* page_number (or both without one), the aggregated entry under their key
\* holds the structured_results of the one that appears later in the list.
C21_LaterOverwrites ==
    Aggregated =>
        \A i, j \in 1..Len(call_in) :
            (/\ i < j
             /\ SameSlot(i, j)
             /\ \A k \in (j + 1)..Len(call_in) : ~SameSlot(j, k))
            => Held(call_in[j].processor_name, call_in[j].page)
                  = StructuredResults(call_in[j])

\* The same statement restricted to a later Result that has
\* structured_results: this much the aggregator does.
C21_LaterNonEmptyOverwrites ==
    Aggregated =>
        \A i, j \in 1..Len(call_in) :
            (/\ i < j
             /\ SameSlot(i, j)
             /\ Truthy(call_in[j])
             /\ \A k \in (j + 1)..Len(call_in) : ~SameSlot(j, k))
            => Held(call_in[j].processor_name, call_in[j].page)
                  = StructuredResults(call_in[j])


OrchestratorFailures ==
    {k \in 1..Len(call_in) :
        /\ call_in[k].processor_name = "pipeline_orchestrator"
        /\ call_in[k].status = "failure"}

Successes == SelectSeq(call_in, LAMBDA r : r.status = "success")

WithoutOrchestratorFailures ==
    SelectSeq(call_in, LAMBDA r : ~(/\ r.processor_name = "pipeline_orchestrator"
                                    /\ r.status = "failure"))

\* C23: the aggregated status is failure, with error_message copied from an
\* orchestrator failure Result, exactly when the list contains a failure
\* Result named pipeline_orchestrator, and success (without error_message)
\* otherwise; pages and document_level_results are those of the successful
\* Results alone, and those of the list without the orchestrator failure
\* Results.
C23_OrchestratorFailureMarks ==
    Aggregated =>
        /\ call_out.status =
              IF OrchestratorFailures # {} THEN "failure" ELSE "success"
        /\ IF OrchestratorFailures # {}
           THEN \E k \in OrchestratorFailures :
                   call_out.error_message = call_in[k].error_message
           ELSE call_out.error_message = <<>>
        /\ call_out.pages = _aggregate_results(Successes, "doc_uuid").pages
        /\ call_out.document_level_results =
              _aggregate_results(Successes, "doc_uuid").document_level_results
        /\ call_out.pages =
              _aggregate_results(WithoutOrchestratorFailures, "doc_uuid").pages
        /\ call_out.document_level_results =
              _aggregate_results(WithoutOrchestratorFailures,
                                 "doc_uuid").document_level_results

\* An orchestrator failure Result stands between a processor's failure and a
\* per-page success: the output is marked failure and still has the page.
C23_Witness ==
    /\ Aggregated
    /\ Len(call_in) = 3
    /\ call_in[1].status = "failure"
    /\ call_in[1].processor_name # "pipeline_orchestrator"
    /\ 2 \in OrchestratorFailures
    /\ call_in[3].status = "success" /\ call_in[3].page > 0
    /\ call_out.status = "failure"
    /\ Len(call_out.pages) = 1


-----------------------------------------------------------------------------
(* Properties of payloads and Results across a run (Spec)                  *)

\* C24: every Result of a run, whichever processor emitted it and whether
\* success or failure, carries metadata.page_number exactly when the payload
\* its execution received had a page_number, and then the same one (0 stands
\* for no page_number on either side).
C24_PageNumberStamped ==
    \A t \in Done : tasks[t].result.page = tasks[t].payload.page_number


\* The tasks whose Result is a successful fan-out.
FannedOut ==
    {t \in Done : tasks[t].result.status = "success"
                  /\ tasks[t].result.sr = "fanout"}

\* The child payloads the Result of task t carries.
Emitted(t) == Children(tasks[t].payload, tasks[t].result.n)

\* C25: every child payload emitted by a fan-out has parent_document_id
\* equal to the document_id of the payload that was fanned out, and no two
\* children of one fan-out have the same page_number.
C25_FanOutLineage ==
    \A t \in FannedOut :
        /\ \A k \in 1..Len(Emitted(t)) :
              Emitted(t)[k].parent_document_id = tasks[t].payload.document_id
        /\ \A k, l \in 1..Len(Emitted(t)) :
              k # l => Emitted(t)[k].page_number # Emitted(t)[l].page_number


\* C26: every payload of a run (the root, every fan-out child, every payload
\* rebuilt by 1:1 propagation) carries the root payload's job_id and
\* document_id, and the final result's job_id is that of the request.
C26_IdsCarried ==
    /\ \A t \in 1..Len(tasks) :
          /\ tasks[t].payload.job_id = root.job_id
          /\ tasks[t].payload.document_id = root.document_id
    /\ pc = "done" => final_result.job_id = root.job_id


IsPrefix(a, b) == Len(a) <= Len(b) /\ SubSeq(b, 1, Len(a)) = a

\* C27: the results history of every payload a step forwards from an input
\* payload p has p.results as a prefix. Forwarded payloads are the children
\* of fan-out Results; the 1:1 propagation never completes the construction
\* of a payload.
C27_HistoryPrefix ==
    \A t \in FannedOut :
        \A k \in 1..Len(Emitted(t)) :
            IsPrefix(tasks[t].payload.results, Emitted(t)[k].results)


-----------------------------------------------------------------------------
(* Scenarios (Spec)                                                        *)

\* A run that returned and in which every execution returned a success
\* Result.
AllSucceeded ==
    /\ RunSucceeded
    /\ final_result.results # <<>>
    /\ \A k \in 1..Len(final_result.results) :
          final_result.results[k].status = "success"

\* C28: a linear run of three steps [extractor, preprocessor, ocr] whose
\* first step fans out N >= 1 pages and in which every execution succeeds
\* ends with 1 + N + N results and N page entries numbered 1..N, each with
\* the last step's result.
C28_LinearFanOutScenario ==
    (/\ pc = "done"
     /\ config.execution_mode = "simple"
     /\ Len(config.pipeline) = 3
     /\ AllSucceeded
     /\ final_result.results[1].sr = "fanout"
     /\ final_result.results[1].n >= 1)
    => LET N == final_result.results[1].n
           pages == final_result.final_output.pages
       IN /\ Len(final_result.results) = 1 + N + N
          /\ Len(pages) = N
          /\ \A i \in 1..Len(pages) :
                /\ pages[i].page_number = i
                /\ ResultKey(config.pipeline[3]) \in DOMAIN pages[i].entries


\* A DAG of three nodes in which the second and the third node, with
\* different processors, both depend on the first and on nothing else.
ForkConfig ==
    /\ config.execution_mode = "dag"
    /\ Len(config.nodes) = 3
    /\ config.nodes[1].dependencies = <<>>
    /\ config.nodes[2].dependencies = <<config.nodes[1].id>>
    /\ config.nodes[3].dependencies = <<config.nodes[1].id>>
    /\ config.nodes[2].processor # config.nodes[3].processor

PayloadsOf(ts) == [k \in 1..Len(ts) |-> ts[k].payload]

\* C29: in a DAG where two nodes both depend on a node pre that produced k
\* page payloads, each of the two is executed exactly k times, once per
\* page payload of pre, and every page entry of final_output.pages contains
\* the result key of both.
C29_ForkScenario ==
    ForkConfig =>
        LET pre == config.nodes[1].id
        IN /\ (pc = "gather" /\ idx = 2) =>
                 \A n \in {2, 3} :
                     PayloadsOf(OfNode(tasks, config.nodes[n].id))
                        = payloads_by_step[pre]
           /\ (RunSucceeded /\ launched[2] >= 2) =>
                 \A i \in 1..Len(final_result.final_output.pages) :
                     \A n \in {2, 3} :
                         ResultKey(config.nodes[n].processor) \in
                            DOMAIN final_result.final_output.pages[i].entries

\* The part of the scenario about executions alone.
C29_OncePerPagePayload ==
    (ForkConfig /\ pc = "gather" /\ idx = 2) =>
        \A n \in {2, 3} :
            PayloadsOf(OfNode(tasks, config.nodes[n].id))
               = payloads_by_step[config.nodes[1].id]


-----------------------------------------------------------------------------
(* Properties of the run endpoint (SpecEndpoint)                           *)

\* The request has been answered with the result of a pipeline run.
AnsweredWithRunResult ==
    /\ call_out.kind = "result"
    /\ svc.pc = "returned"
    /\ ~svc.result_error

\* C30: a request for a pipeline whose execution_mode is linear ("simple"
\* in the templates) is run inline and answered with the aggregated result;
\* a request for a dag pipeline is answered with a job_id only, and no
\* processor of the run has executed when it is answered.
C30_ModeDispatch ==
    pc = "answered" =>
        IF config.execution_mode = "dag"
        THEN call_out = Response("job", "celery_task_id") /\ Launched = 0
        ELSE AnsweredWithRunResult

\* The dag half alone.
C30_DagDeferred ==
    (pc = "answered" /\ config.execution_mode = "dag") =>
        call_out = Response("job", "celery_task_id") /\ Launched = 0


-----------------------------------------------------------------------------
(* Properties of the status endpoint (SpecStatus)                          *)

Terminal(status) == status \in {"success", "failed"}

\* C31: the statuses answered by successive queries of one job are a run of
\* in_progress followed by one terminal status repeated: every status is
\* in_progress, success or failed, and after a terminal answer every later
\* answer is the same.
C31_StatusMonotonic ==
    /\ \A i \in 1..Len(call_out) :
          call_out[i] \in {"in_progress", "success", "failed"}
    /\ \A i, j \in 1..Len(call_out) :
          (i < j /\ Terminal(call_out[i])) => call_out[j] = call_out[i]

\* The same while the backend still holds the task's record.
C31_StatusMonotonicUntilExpiry ==
    pc # "expired" => C31_StatusMonotonic


-----------------------------------------------------------------------------
(* Properties of the status topic (SpecTopic)                              *)

\* The states a deferred job has entered after created.
Transitions ==
    CASE pc = "created" -> <<>>
      [] pc = "in_progress" -> <<"in_progress">>
      [] OTHER -> <<"in_progress", pc>>

\* C32: the messages published on job:<job_id> are one per state transition
\* of the job, in the order created, in_progress, terminal, and once the
\* job has ended the last message is its terminal state.
C32_MessagePerTransition ==
    /\ Len(call_in) = Len(Transitions)
    /\ Terminal(pc) =>
          call_in # <<>> /\ Terminal(call_in[Len(call_in)])


-----------------------------------------------------------------------------
(* Order of launches and of results in a DAG run (Spec)                    *)

\* The payloads a node is launched on, from the declaration of its
\* dependencies: the root payload, or the payloads of the dependencies one
\* dependency after the other.
DeclaredInputs(id) ==
    LET node == nodes_by_id(config.nodes)[id]
        deps == node.dependencies
    IN IF deps = <<>> THEN <<root>>
       ELSE Flatten([k \in 1..Len(deps) |->
                       IF deps[k] \in DOMAIN payloads_by_step
                       THEN payloads_by_step[deps[k]] ELSE <<>>])

\* C33: the launched executions of a DAG run are fixed by the config and the
\* payloads produced so far, so two runs with the same input, config and
\* processor outcomes launch the same sequence: a batch holds executions of
\* the current level only, nodes in ascending lexical id, and each node's
\* executions run over the payloads of its declared dependencies in order.
C33_LaunchOrder ==
    (pc = "gather" /\ config.execution_mode = "dag") =>
        /\ \A t \in 1..Len(tasks) : tasks[t].ctx \in Range(execution_levels[idx])
        /\ \A t, u \in 1..Len(tasks) :
              t < u => Rank(tasks[t].ctx) <= Rank(tasks[u].ctx)
        /\ \A id \in Range(execution_levels[idx]) :
              PayloadsOf(OfNode(tasks, id)) = DeclaredInputs(id)

\* A level of two nodes is launched on the two pages of their dependency.
C33_Witness ==
    /\ pc = "gather"
    /\ config.execution_mode = "dag"
    /\ idx = 2
    /\ Len(tasks) = 4
    /\ tasks[1].ctx # tasks[3].ctx
    /\ tasks[1].payload.page_number = 1
    /\ tasks[2].payload.page_number = 2

------------------------------------------------------------------------------
(* C34: cancellation during a run                                          *)

Cancelled == {t \in 1..Len(tasks) : tasks[t].st = "cancelled"}

\* The Results run has in hand when the cancellation arrives: those of the
\* earlier batches and those of the executions of this batch that finished.
CompletedResults ==
    all_results \o [t \in 1..Cardinality(Done) |->
                      tasks[CHOOSE u \in Done :
                              Cardinality({v \in Done : v < u}) = t - 1].result]

\* C34: a run cancelled while executions are in progress still yields a
\* Document Processing Result whose run-level status is failed, which keeps
\* every Result completed before the cancellation and holds, for each
\* cancelled execution, a Result with status failure and error message
\* "cancelled".
C34_CancelledRunYieldsResult ==
    pc = "cancelled" =>
        /\ final_result.status \in {"failure", "failed"}
        /\ \A i \in 1..Len(CompletedResults) :
              \E j \in 1..Len(final_result.results) :
                 final_result.results[j] = CompletedResults[i]
        /\ Cardinality({j \in 1..Len(final_result.results) :
                           /\ final_result.results[j].status = "failure"
                           /\ final_result.results[j].error_message = <<"cancelled">>})
              >= Cardinality(Cancelled)

\* What the code does instead: nothing is returned, and no execution that
\* was cancelled has a Result.
C34_CancellationEscapes ==
    pc = "cancelled" =>
        /\ final_result.status = "in_progress"
        /\ final_result.results = <<>>
        /\ Cancelled # {}
        /\ \A t \in Cancelled : tasks[t].result = NoResult
        /\ permits = config.max_concurrency

C34_Witness ==
    /\ pc = "cancelled"
    /\ Done # {}
    /\ Cancelled # {}

------------------------------------------------------------------------------
(* C35: loading the template directory                                     *)

Loaded == pc = "loaded"

ValidFile(f) ==
    /\ f.json
    /\ required_keys \subseteq DOMAIN f.data
    /\ f.data.execution_mode \in {"simple", "dag"}

Registered(f) ==
    /\ "name" \in DOMAIN f.data
    /\ f.data.name \in DOMAIN call_out
    /\ call_out[f.data.name] = f.data

\* The registry the same directory gives when read in the order ord.
RegistryIn(ord) == load_files([k \in 1..MaxFiles |-> call_in[ord[k]]])

\* C35: after the directory is loaded, no file that is not JSON or fails
\* validation is registered, every valid file is registered under its name,
\* and the registry is the same for every order of reading the files.
C35_ValidFilesRegistered ==
    Loaded =>
        /\ \A i \in 1..MaxFiles : ~ValidFile(call_in[i]) => ~Registered(call_in[i])
        /\ \A i \in 1..MaxFiles : ValidFile(call_in[i]) => Registered(call_in[i])
        /\ \A ord \in Perms(1..MaxFiles) : RegistryIn(ord) = call_out

SharesName(i) ==
    \E j \in 1..MaxFiles :
       /\ j # i
       /\ ValidFile(call_in[j])
       /\ call_in[j].data.name = call_in[i].data.name
       /\ call_in[j].data # call_in[i].data

\* What the loader guarantees: invalid files are never registered, a valid
\* file is registered unless another valid file of the directory has its
\* name with other content, and each registered name belongs to a valid file.
C35_InvalidRejectedUniqueRegistered ==
    Loaded =>
        /\ \A i \in 1..MaxFiles : ~ValidFile(call_in[i]) => ~Registered(call_in[i])
        /\ \A i \in 1..MaxFiles :
              (ValidFile(call_in[i]) /\ ~SharesName(i)) => Registered(call_in[i])
        /\ \A n \in DOMAIN call_out :
              \E i \in 1..MaxFiles : ValidFile(call_in[i]) /\ call_in[i].data = call_out[n]

C35_Witness ==
    /\ Loaded
    /\ \E i, j, k \in 1..MaxFiles :
          /\ ValidFile(call_in[i]) /\ ValidFile(call_in[j]) /\ ~call_in[k].json
          /\ call_in[i].data.name = call_in[j].data.name
          /\ call_in[i].data.description # call_in[j].data.description
          /\ Registered(call_in[j])
          /\ order_in[MaxFiles] = j

------------------------------------------------------------------------------
(* C36: page_range of the PDF extractor                                    *)

Extracted == pc = "extracted" /\ call_in.page_range # <<>>

\* The pages a token names: n for an int, start..end for a range.
NamedBy(tok) ==
    IF tok.kind \in {"int", "range"} THEN tok.start..tok.end ELSE {}

NamedPages ==
    UNION {NamedBy(call_in.page_range[k]) : k \in 1..Len(call_in.page_range)}

\* A token is refused when it is malformed (a start-end with start after end
\* counts as malformed) or names a page outside 1..max_pages.
Refused(tok) ==
    \/ tok.kind = "malformed"
    \/ tok.kind = "range" /\ tok.start > tok.end
    \/ \E p \in NamedBy(tok) : p < 1 \/ p > call_in.max_pages

AnyRefused == \E k \in 1..Len(call_in.page_range) : Refused(call_in.page_range[k])

PagesOf(children) == [k \in 1..Len(children) |-> children[k].page_number]

\* C36: for a PDF of max_pages pages and a non-empty page_range, the Result
\* of the extractor is a failure without children when a token is refused;
\* otherwise it is a success carrying exactly one child per named page, in
\* ascending order, page_number being that page; no named page gives a
\* success with zero children.
C36_PageRangeHonoured ==
    Extracted =>
        IF AnyRefused
        THEN /\ call_out.result.status = "failure"
             /\ call_out.children = <<>>
        ELSE /\ call_out.result.status = "success"
             /\ PagesOf(call_out.children) = sorted_numbers(NamedPages)

\* The same statement about the Result the body of process builds, before
\* instrument_step replaces it.
C36_BodyHonoursPageRange ==
    Extracted =>
        IF AnyRefused
        THEN /\ call_out.body.status = "failure"
             /\ call_out.body.children = <<>>
        ELSE /\ call_out.body.status = "success"
             /\ call_out.body.has_payloads
             /\ PagesOf(call_out.body.children) = sorted_numbers(NamedPages)

\* "1,3-4" on a PDF of four pages.
C36_Witness ==
    /\ Extracted
    /\ call_in.max_pages = 4
    /\ call_in.page_range = <<IntToken(1), RangeToken(3, 4)>>
    /\ PagesOf(call_out.body.children) = <<1, 3, 4>>

\* Only blank parts: nothing selected.
C36_WitnessEmpty ==
    /\ Extracted
    /\ ~AnyRefused
    /\ NamedPages = {}
    /\ call_out.body.status = "success"
    /\ call_out.body.children = <<>>

------------------------------------------------------------------------------
(* C37: page context of a shared processor instance                        *)

\* _run_linear creates one processor per step and hands it to every
\* execution of the batch; _run_dag creates one per node.
SameInstance(t, u) ==
    config.execution_mode = "dag" => tasks[t].ctx = tasks[u].ctx

\* BaseProcessor.execute stores the payload's page context on the instance
\* before it awaits process.  The semaphore admits the coroutines in list
\* order, so the instance holds the context of the last admitted execution
\* that shares it.
InstanceContext(t) ==
    LET mine == {u \in 1..Len(tasks) :
                   SameInstance(t, u) /\ tasks[u].st # "waiting"}
        last == CHOOSE u \in mine : \A v \in mine : v <= u
    IN [page_number |-> tasks[last].payload.page_number,
        parent_document_id |-> tasks[last].payload.parent_document_id]

OwnContext(t) ==
    [page_number |-> tasks[t].payload.page_number,
     parent_document_id |-> tasks[t].payload.parent_document_id]

\* C37: while an execution is in progress, the page context its processor
\* instance holds is the one of the execution's own payload.
C37_ContextIsOwn ==
    pc = "gather" => \A t \in Running : InstanceContext(t) = OwnContext(t)

\* With one permit the executions of a batch never overlap, and each one
\* sees its own context from start to end.
C37_ContextIsOwnWhenSerial ==
    (pc = "gather" /\ config.max_concurrency = 1) =>
        \A t \in Running : InstanceContext(t) = OwnContext(t)

C37_Witness ==
    /\ pc = "gather"
    /\ config.max_concurrency = 1
    /\ Len(tasks) = 2
    /\ tasks[1].st = "done" /\ tasks[2].st = "running"
    /\ tasks[1].payload.page_number # tasks[2].payload.page_number

------------------------------------------------------------------------------
(* C38: termination and permits                                            *)

Ended == pc = "done"

\* Every execution a batch launched went through the semaphore and came
\* back.
AllAcquired ==
    \A i \in DOMAIN launched : started[i] = launched[i] /\ returned[i] = launched[i]

\* C38: under a fair event loop whose executions all return or raise, run
\* eventually ends with a Document Processing Result, every execution it
\* launched having acquired the semaphore, and with every permit of the
\* semaphore free, whether executions returned or raised.
C38_TerminatesWithPermitsFree ==
    <>(/\ Ended
       /\ final_result.status \in {"success", "failure"}
       /\ AllAcquired
       /\ permits = config.max_concurrency)

\* A run with one permit that ended after an execution raised and a later
\* batch of two executions went through the semaphore one by one.
C38_Witness ==
    /\ Ended
    /\ config.max_concurrency = 1
    /\ permits = 1
    /\ \E i \in 1..Len(all_results) :
          /\ all_results[i].status = "failure"
          /\ all_results[i].error_message # <<>>
          /\ all_results[i].error_message[1] = "Unhandled exception in"
    /\ \E i \in DOMAIN started : started[i] >= 2

------------------------------------------------------------------------------
(* C39: order of the flat results list of a DAG run                        *)

\* The last gather of a DAG run that returns: the executor goes on to the
\* collection loop and run ends with status success.
DagReturns ==
    /\ pc = "gather"
    /\ config.execution_mode = "dag"
    /\ pc' = "done"
    /\ final_result'.status = "success"

\* step_results once the Results of the last batch are appended.
FinalStepResults ==
    [id \in DOMAIN step_results |->
       step_results[id] \o [k \in 1..Len(OfNode(tasks, id)) |->
                              OfNode(tasks, id)[k].result]]

\* all_results as the collection loop builds it when the set executed_steps
\* iterates in the order ord.
CollectedIn(ord) == Flatten([k \in 1..Len(ord) |-> FinalStepResults[ord[k]]])

\* The Results of the nodes, without the closing pipeline_orchestrator entry.
NodeResults ==
    SelectSeq(final_result.results,
              LAMBDA r : r.processor_name # "pipeline_orchestrator")

NodeOrders == Perms({config.nodes[i].id : i \in 1..Len(config.nodes)})

LevelOf(id) ==
    CHOOSE L \in 1..Len(execution_levels) : id \in Range(execution_levels[L])

\* ord lists the nodes level by level.
LevelOrder(ord) ==
    \A i, j \in 1..Len(ord) : i < j => LevelOf(ord[i]) <= LevelOf(ord[j])

\* C39: the flat results list a DAG run returns holds the Results of the
\* nodes level by level, and it is the same list whatever order the set of
\* executed steps iterates in.
C39_ResultsInLevelOrder ==
    [][DagReturns =>
         /\ \E ord \in NodeOrders : LevelOrder(ord) /\ NodeResults' = CollectedIn(ord)
         /\ \A ord \in NodeOrders : NodeResults' = CollectedIn(ord)]_vars

\* What the collection loop guarantees: the Results of each node stay
\* together and in launch order, the nodes in some order.
C39_ResultsGroupedByNode ==
    [][DagReturns => \E ord \in NodeOrders : NodeResults' = CollectedIn(ord)]_vars

\* A run of a -> b that ended with the Result of b ahead of the Result of a.
C39_Witness ==
    /\ Ended
    /\ config.execution_mode = "dag"
    /\ final_result.status = "success"
    /\ Len(config.nodes) = 2
    /\ config.nodes[1].processor = "stub_processor"
    /\ config.nodes[2].processor = "ocr_processor"
    /\ config.nodes[2].dependencies = <<config.nodes[1].id>>
    /\ Len(final_result.results) = 2
    /\ final_result.results[1].processor_name = "ocr_processor"
    /\ final_result.results[2].processor_name = "stub_processor"

------------------------------------------------------------------------------
(* C40: payloads received by run and by the executions                     *)

\* The executions of the pending batch keep their places from one step of
\* the batch to the next.
SameBatch == pc = "gather" /\ pc' = "gather" /\ idx' = idx /\ Len(tasks') = Len(tasks)

\* C40: no step of a run changes a field of the root payload run was handed
\* or of the payload an execution was handed.
C40_PayloadsUnchanged ==
    [][/\ root' = root
       /\ SameBatch => \A t \in 1..Len(tasks) : tasks'[t].payload = tasks[t].payload]_vars

\* What holds instead: the only assignment to a received payload is run
\* giving the root payload a document_id when it has none; the executions
\* leave their payloads alone.
C40_OnlyDocumentIdAssigned ==
    [][/\ root' = [root EXCEPT !.document_id = root'.document_id]
       /\ root.document_id # "none" => root' = root
       /\ SameBatch => \A t \in 1..Len(tasks) : tasks'[t].payload = tasks[t].payload]_vars

\* run has started on a payload with a history and has overwritten its
\* document_id; an execution on it has returned.
C40_Witness ==
    /\ pc = "gather"
    /\ root.document_id = "doc_uuid"
    /\ root.results # <<>>
    /\ \E t \in Done : tasks[t].payload = root

=============================================================================
